---- MODULE Spec2Model ----
(***************************************************************************)
(* Source ingestion and retrieval pipeline of the RAG system.              *)
(*                                                                         *)
(* Spec          : the ingestion pipeline (process_source flow runs, the   *)
(*                 vector store, delete_source, session links).            *)
(***************************************************************************)
EXTENDS Integers, Sequences, FiniteSets, TLC

(***************************************************************************)
(* Bounds of the model.                                                    *)
(***************************************************************************)
NumSources == 2
MaxRuns == 2
NumBatches == 1
MaxFaults == 1

(***************************************************************************)
(* Program constants.                                                      *)
(***************************************************************************)
\* flows/pipeline.py: @flow(..., retries=3)
Retries == 3

\* flows/source_processing/deployment.py: deploy(..., concurrency_limit=1)
ConcurrencyLimit == 1

SourceIds == 1..NumSources
RunIds == 1..MaxRuns
BatchIds == 1..NumBatches

\* enums SourceStatus
SourceStatus == {"CREATED", "PROCESSED", "COMPLETED", "FAILED"}

VARIABLES
    sources,       \* the sources table: id -> row
    runs,          \* flow runs of the "Process Source" deployments
    collections,   \* vector store: the per-source collections
    sourcesIndex,  \* vector store: the source-level index collection
    sessionLinks,  \* session_sources rows: the ids attached to a session
    deleter,       \* the delete_source request in progress
    faults,        \* transient failures of external calls so far
    deps,          \* retrieve: context.deps of the tool call
    call,          \* retrieve: the arguments of the tool call
    store,         \* retrieve: what the vector store and the tables answer
    rpc,           \* retrieve: position in the call
    allowed_source_ids,
    effective_n_results,
    selected_source_ids,
    cursor,        \* retrieve: index of the loop over selected_source_ids
    ranked_chunks,
    result,        \* retrieve: the returned value
    io,            \* retrieve: the searches and table reads made so far
    source_db,     \* DB indexing: the mapping and the rows of the mapped table
    db_collection, \* DB indexing: the collection of the source
    latest,        \* DB indexing: per logical key the last upserted text and payload
    conn,          \* relational connector: the call in progress
    scoring,       \* relevance_score: the configured metric, two raw scores, the results
    ident,         \* validate_identifier: the value and the outcome
    sessions,      \* the sessions with their source links and messages
    response       \* the outcome of the last session request

pvars == <<sources, runs, collections, sourcesIndex, sessionLinks, deleter, faults>>

rvars == <<deps, call, store, rpc, allowed_source_ids, effective_n_results,
           selected_source_ids, cursor, ranked_chunks, result, io>>

xvars == <<source_db, db_collection, latest, conn, scoring, ident, sessions, response>>

vars == <<pvars, rvars, xvars>>

(***************************************************************************)
(* Vector store client (ai/vector_store.py).  A collection is absent or a  *)
(* set of points; a point is identified by its logical key                 *)
(* (_normalize_point_id is a deterministic uuid5 of the key).              *)
(***************************************************************************)
NoCollection == [exists |-> FALSE, points |-> {}]

\* ensure_collection: create the collection when it does not exist.
ensure_collection(c) == [c EXCEPT !.exists = TRUE]

\* upsert_chunks: no call for an empty batch; otherwise ensure_collection and
\* overwrite by key.
upsert_chunks(c, pts) ==
    IF pts = {} THEN c
    ELSE [exists |-> TRUE,
          points |-> {p \in c.points : \A q \in pts : q.id # p.id} \cup pts]

\* delete_collection: no-op when absent.
delete_collection(c) == NoCollection

\* delete_points: no-op when the collection is absent.
delete_points(c, ids) ==
    IF ~c.exists THEN c
    ELSE [c EXCEPT !.points = {p \in c.points : p.id \notin ids}]

\* The point one indexing upsert writes for key k of source s.
ContentPoint(s, k) == [id |-> k, source_id |-> s]

\* The point completion writes: ids=["source-<id>"], payload source_id.
SummaryPoint(s) == [id |-> s, source_id |-> s]

(***************************************************************************)
(* Flow runs.                                                              *)
(***************************************************************************)
\* llm_missing: some attempt of the run found no active provider or no model.
IdleRun == [src |-> 0, pc |-> "idle", attempt |-> 0, task |-> "none",
            err |-> "none", batch |-> 0, llm_missing |-> FALSE]

\* A run that holds its deployment's concurrency slot.
RunningPcs == {"mark", "load", "ensure", "index", "summarize", "complete",
               "index_summary", "create_index", "upsert_summary", "raised"}

Raised(run, task, err) == [run EXCEPT !.pc = "raised", !.task = task, !.err = err]

\* SourceType: odd ids are file-backed sources, even ids DB-backed ones.
SourceKind(s) == IF s % 2 = 1 THEN "file" ELSE "db"

\* repository.update_by(id, {"status": st}): no-op when the row is absent.
SetStatus(tbl, s, st) ==
    IF tbl[s].exists THEN [tbl EXCEPT ![s].status = st] ELSE tbl

PInit ==
    /\ sources \in [SourceIds -> [exists : {TRUE}, status : {"CREATED"},
                                  summary : {"none"}, backing : BOOLEAN,
                                  readable : BOOLEAN]]
    /\ \A s \in SourceIds : ~sources[s].backing => sources[s].readable
    /\ runs = [r \in RunIds |-> IdleRun]
    /\ collections = [s \in SourceIds |-> NoCollection]
    /\ sourcesIndex = NoCollection
    /\ sessionLinks = {}
    /\ deleter = [src |-> 0, pc |-> "idle"]
    /\ faults = 0

\* SourceUsecase.deploy_process_source_flow: deploy and run_deployment.
Trigger(s) ==
    /\ sources[s].exists
    /\ \E r \in RunIds :
        /\ runs[r].pc = "idle"
        /\ \A q \in RunIds : q < r => runs[q].pc # "idle"
        /\ runs' = [runs EXCEPT ![r] = [IdleRun EXCEPT !.src = s, !.pc = "scheduled"]]
    /\ UNCHANGED <<sources, collections, sourcesIndex, sessionLinks, deleter, faults, rvars, xvars>>

\* A deployment without a concurrency limit admits every scheduled run.
StartRunUnlimited(r) ==
    /\ runs[r].pc = "scheduled"
    /\ runs' = [runs EXCEPT ![r].pc = "mark"]
    /\ UNCHANGED <<sources, collections, sourcesIndex, sessionLinks, deleter, faults, rvars, xvars>>

\* The deployment PROCESS_SOURCE_<id> admits a run while fewer than
\* concurrency_limit runs of it are executing.
StartRun(r) ==
    /\ runs[r].pc = "scheduled"
    /\ Cardinality({q \in RunIds : runs[q].src = runs[r].src
                                   /\ runs[q].pc \in RunningPcs}) < ConcurrencyLimit
    /\ runs' = [runs EXCEPT ![r].pc = "mark"]
    /\ UNCHANGED <<sources, collections, sourcesIndex, sessionLinks, deleter, faults, rvars, xvars>>

(***************************************************************************)
(* process_source: index -> summarize -> complete, one action per await.   *)
(***************************************************************************)
\* A first step that finds the row and leaves its status as it is.
MarkProcessedNoWrite(r) ==
    LET s == runs[r].src IN
    /\ runs[r].pc = "mark"
    /\ IF sources[s].exists
       THEN runs' = [runs EXCEPT ![r].pc = "load"]
       ELSE runs' = [runs EXCEPT ![r] = Raised(@, "index", "source_not_found")]
    /\ UNCHANGED <<sources, collections, sourcesIndex, sessionLinks, deleter, faults,
                   rvars, xvars>>

\* load_source_for_processing: update_by(status=PROCESSED); a missing row raises.
MarkProcessed(r) ==
    LET s == runs[r].src IN
    /\ runs[r].pc = "mark"
    /\ IF sources[s].exists
       THEN /\ sources' = SetStatus(sources, s, "PROCESSED")
            /\ runs' = [runs EXCEPT ![r].pc = "load"]
       ELSE /\ runs' = [runs EXCEPT ![r] = Raised(@, "index", "source_not_found")]
            /\ UNCHANGED sources
    /\ UNCHANGED <<collections, sourcesIndex, sessionLinks, deleter, faults, rvars, xvars>>

\* A load that raises for a missing SourceFile / SourceDb row and leaves the
\* status as it is.
LoadPayloadKeepStatus(r) ==
    LET s == runs[r].src IN
    /\ runs[r].pc = "load"
    /\ IF sources[s].exists /\ sources[s].backing
       THEN runs' = [runs EXCEPT ![r].pc = "ensure"]
       ELSE runs' = [runs EXCEPT ![r] = Raised(@, "index", "missing_backing")]
    /\ UNCHANGED <<sources, collections, sourcesIndex, sessionLinks, deleter, faults,
                   rvars, xvars>>

\* load_source_for_processing: read the SourceFile / SourceDb row; when it is
\* missing set FAILED and raise.
LoadPayload(r) ==
    LET s == runs[r].src IN
    /\ runs[r].pc = "load"
    /\ IF sources[s].exists /\ sources[s].backing
       THEN /\ runs' = [runs EXCEPT ![r].pc = "ensure"]
            /\ UNCHANGED sources
       ELSE /\ sources' = SetStatus(sources, s, "FAILED")
            /\ runs' = [runs EXCEPT ![r] = Raised(@, "index", "missing_backing")]
    /\ UNCHANGED <<collections, sourcesIndex, sessionLinks, deleter, faults, rvars, xvars>>

\* _index_source: get_or_create_collection(source.collection); the vector
\* store call may fail.
EnsureCollection(r) ==
    LET s == runs[r].src IN
    /\ runs[r].pc = "ensure"
    /\ \/ /\ collections' = [collections EXCEPT ![s] = ensure_collection(@)]
          /\ runs' = [runs EXCEPT ![r].pc = "index", ![r].batch = 0]
          /\ UNCHANGED faults
       \/ /\ faults < MaxFaults
          /\ faults' = faults + 1
          /\ runs' = [runs EXCEPT ![r] = Raised(@, "index", "vector_store_error")]
          /\ UNCHANGED collections
    /\ UNCHANGED <<sources, sourcesIndex, sessionLinks, deleter, rvars, xvars>>

\* The error of reading an unreadable source: text extraction fails (file),
\* or the row stream raises SourceDbConnectorError, re-raised as ValueError (db).
ReadError(kind) == IF kind = "file" THEN "extract_error" ELSE "connector_error"

\* _index_file_source: extract, chunk, one upsert of all chunks.
\* _index_db_source: per streamed batch one upsert; the stream ends with the
\* table.  Neither error path writes the status.
IndexStep(r) ==
    LET s == runs[r].src IN
    /\ runs[r].pc = "index"
    /\ \/ /\ SourceKind(s) = "file"
          /\ sources[s].readable
          /\ collections' = [collections EXCEPT ![s] =
                upsert_chunks(@, {ContentPoint(s, k) : k \in BatchIds})]
          /\ runs' = [runs EXCEPT ![r].pc = "summarize"]
          /\ UNCHANGED faults
       \/ /\ SourceKind(s) = "db"
          /\ sources[s].readable
          /\ runs[r].batch < NumBatches
          /\ collections' = [collections EXCEPT ![s] =
                upsert_chunks(@, {ContentPoint(s, runs[r].batch + 1)})]
          /\ runs' = [runs EXCEPT ![r].batch = @ + 1]
          /\ UNCHANGED faults
       \/ /\ SourceKind(s) = "db"
          /\ sources[s].readable
          /\ runs' = [runs EXCEPT ![r].pc = "summarize"]
          /\ UNCHANGED <<collections, faults>>
       \/ /\ ~sources[s].readable
          /\ runs' = [runs EXCEPT ![r] = Raised(@, "index", ReadError(SourceKind(s)))]
          /\ UNCHANGED <<collections, faults>>
       \/ /\ faults < MaxFaults
          /\ faults' = faults + 1
          /\ runs' = [runs EXCEPT ![r] = Raised(@, "index", "vector_store_error")]
          /\ UNCHANGED collections
    /\ UNCHANGED <<sources, sourcesIndex, sessionLinks, deleter, rvars, xvars>>

\* _summarize_source: no active provider or no model sets FAILED and raises;
\* a failing summarize call raises without touching the status.
Summarize(r) ==
    LET s == runs[r].src IN
    /\ runs[r].pc = "summarize"
    /\ \/ /\ runs' = [runs EXCEPT ![r].pc = "complete"]
          /\ UNCHANGED <<sources, faults>>
       \/ /\ faults < MaxFaults
          /\ faults' = faults + 1
          /\ \E err \in {"no_provider", "no_models"} :
                runs' = [runs EXCEPT ![r] =
                            [Raised(@, "summarize", err) EXCEPT !.llm_missing = TRUE]]
          /\ sources' = SetStatus(sources, s, "FAILED")
       \/ /\ faults < MaxFaults
          /\ faults' = faults + 1
          /\ runs' = [runs EXCEPT ![r] = Raised(@, "summarize", "summarize_error")]
          /\ UNCHANGED sources
    /\ UNCHANGED <<collections, sourcesIndex, sessionLinks, deleter, rvars, xvars>>

\* _complete_processing_source, first await: update_by(status=COMPLETED,
\* summary=summary); a missing row raises.
Complete(r) ==
    LET s == runs[r].src IN
    /\ runs[r].pc = "complete"
    /\ IF sources[s].exists
       THEN /\ sources' = [sources EXCEPT ![s].status = "COMPLETED",
                                          ![s].summary = "text"]
            /\ runs' = [runs EXCEPT ![r].pc = "index_summary"]
       ELSE /\ runs' = [runs EXCEPT ![r] = Raised(@, "complete", "source_not_found")]
            /\ UNCHANGED sources
    /\ UNCHANGED <<collections, sourcesIndex, sessionLinks, deleter, faults, rvars, xvars>>

\* _complete_processing_source, second await: upsert_chunks on the
\* source-level index collection, which every source shares.  Its first
\* await is ensure_collection's client.collection_exists.
IndexSummary(r) ==
    /\ runs[r].pc = "index_summary"
    /\ \/ /\ runs' = [runs EXCEPT ![r].pc = IF sourcesIndex.exists
                                             THEN "upsert_summary"
                                             ELSE "create_index"]
          /\ UNCHANGED faults
       \/ /\ faults < MaxFaults
          /\ faults' = faults + 1
          /\ runs' = [runs EXCEPT ![r] = Raised(@, "complete", "vector_store_error")]
    /\ UNCHANGED <<sources, collections, sourcesIndex, sessionLinks, deleter, rvars,
                   xvars>>

\* ensure_collection, second await: client.create_collection, which the
\* store refuses for a name that exists.
CreateIndexCollection(r) ==
    /\ runs[r].pc = "create_index"
    /\ IF sourcesIndex.exists
       THEN /\ runs' = [runs EXCEPT ![r] = Raised(@, "complete", "collection_exists")]
            /\ UNCHANGED sourcesIndex
       ELSE /\ sourcesIndex' = ensure_collection(sourcesIndex)
            /\ runs' = [runs EXCEPT ![r].pc = "upsert_summary"]
    /\ UNCHANGED <<sources, collections, sessionLinks, deleter, faults, rvars, xvars>>

\* upsert_chunks, last await: client.upsert of the summary point.
UpsertSummary(r) ==
    LET s == runs[r].src IN
    /\ runs[r].pc = "upsert_summary"
    /\ sourcesIndex' = upsert_chunks(sourcesIndex, {SummaryPoint(s)})
    /\ runs' = [runs EXCEPT ![r].pc = "succeeded"]
    /\ UNCHANGED <<sources, collections, sessionLinks, deleter, faults, rvars, xvars>>

\* The tasks a retried flow run executes again: always the task that raised;
\* the tasks before it either run again or are served from their results.
ResumePcs(task) ==
    CASE task = "index" -> {"mark"}
      [] task = "summarize" -> {"mark", "summarize"}
      [] OTHER -> {"mark", "complete"}

\* @flow(retries=3): a raising attempt is run again up to Retries times, then
\* the run ends failed.
RetryOrFail(r) ==
    /\ runs[r].pc = "raised"
    /\ IF runs[r].attempt < Retries
       THEN \E pc \in ResumePcs(runs[r].task) :
                runs' = [runs EXCEPT ![r].pc = pc, ![r].attempt = @ + 1,
                                     ![r].task = "none", ![r].err = "none",
                                     ![r].batch = 0]
       ELSE runs' = [runs EXCEPT ![r].pc = "failed"]
    /\ UNCHANGED <<sources, collections, sourcesIndex, sessionLinks, deleter, faults, rvars, xvars>>

(***************************************************************************)
(* SourceUsecase.delete_source, one action per vector store / database     *)
(* call.                                                                   *)
(***************************************************************************)
\* The positions at which no delete_source request is in progress: none was
\* made or the last one returned, or the last one raised SourceConflictError
\* or the IntegrityError of the foreign key.
DeleterDone == {"idle", "conflict", "integrity_error"}

\* A delete_source that does not look at the session links.
DeleteBeginUnchecked(s) ==
    /\ deleter.pc \in DeleterDone
    /\ sources[s].exists
    /\ deleter' = [src |-> s, pc |-> "delete_collection"]
    /\ UNCHANGED <<sources, runs, collections, sourcesIndex, sessionLinks, faults, rvars, xvars>>

\* get_by(id) must find the row; a session_sources row that names it raises
\* SourceConflictError.
DeleteBegin(s) ==
    /\ deleter.pc \in DeleterDone
    /\ sources[s].exists
    /\ deleter' = [src |-> s, pc |-> IF s \in sessionLinks THEN "conflict"
                                     ELSE "delete_collection"]
    /\ UNCHANGED <<sources, runs, collections, sourcesIndex, sessionLinks, faults, rvars, xvars>>

DeleteCollection ==
    /\ deleter.pc = "delete_collection"
    /\ collections' = [collections EXCEPT ![deleter.src] = delete_collection(@)]
    /\ deleter' = [deleter EXCEPT !.pc = "delete_points"]
    /\ UNCHANGED <<sources, runs, sourcesIndex, sessionLinks, faults, rvars, xvars>>

DeletePoints ==
    /\ deleter.pc = "delete_points"
    /\ sourcesIndex' = delete_points(sourcesIndex, {deleter.src})
    /\ deleter' = [deleter EXCEPT !.pc = "delete_row"]
    /\ UNCHANGED <<sources, runs, collections, sessionLinks, faults, rvars, xvars>>

\* repository.delete_by(id): session_sources.source_id references sources.id
\* ON DELETE RESTRICT, so the delete of a row that a link names raises.
DeleteRow ==
    /\ deleter.pc = "delete_row"
    /\ IF deleter.src \in sessionLinks
       THEN /\ deleter' = [deleter EXCEPT !.pc = "integrity_error"]
            /\ UNCHANGED sources
       ELSE /\ sources' = [sources EXCEPT ![deleter.src].exists = FALSE]
            /\ deleter' = [src |-> 0, pc |-> "idle"]
    /\ UNCHANGED <<runs, collections, sourcesIndex, sessionLinks, faults, rvars, xvars>>

(***************************************************************************)
(* SessionUsecase: only existing COMPLETED sources are attached.           *)
(***************************************************************************)
AttachSource(s) ==
    /\ s \notin sessionLinks
    /\ sources[s].exists
    /\ sources[s].status = "COMPLETED"
    /\ sessionLinks' = sessionLinks \cup {s}
    /\ UNCHANGED <<sources, runs, collections, sourcesIndex, deleter, faults, rvars, xvars>>

DetachSource(s) ==
    /\ s \in sessionLinks
    /\ sessionLinks' = sessionLinks \ {s}
    /\ UNCHANGED <<sources, runs, collections, sourcesIndex, deleter, faults, rvars, xvars>>

PNext ==
    \/ \E s \in SourceIds : Trigger(s)
    \/ \E r \in RunIds : StartRun(r)
    \/ \E r \in RunIds : MarkProcessed(r)
    \/ \E r \in RunIds : LoadPayload(r)
    \/ \E r \in RunIds : EnsureCollection(r)
    \/ \E r \in RunIds : IndexStep(r)
    \/ \E r \in RunIds : Summarize(r)
    \/ \E r \in RunIds : Complete(r)
    \/ \E r \in RunIds : IndexSummary(r)
    \/ \E r \in RunIds : CreateIndexCollection(r)
    \/ \E r \in RunIds : UpsertSummary(r)
    \/ \E r \in RunIds : RetryOrFail(r)
    \/ \E s \in SourceIds : DeleteBegin(s)
    \/ DeleteCollection
    \/ DeletePoints
    \/ DeleteRow
    \/ \E s \in SourceIds : AttachSource(s)
    \/ \E s \in SourceIds : DetachSource(s)

(***************************************************************************)
(* The retrieve tool (ai/tools/retrieve.py).                               *)
(*                                                                         *)
(* Python values: None is the record field given = FALSE (n_results,       *)
(* filters) or the id 0 (source ids and row ids are positive); a payload   *)
(* source_id is a typed value [t, v]; a document is a number, 0 standing   *)
(* for a missing, non-string or blank one.                                 *)
(***************************************************************************)
MIN_RESULTS == 1
MAX_RESULTS == 20

\* constants/retrieve.py: the default of RetrieveContext.n_results
DEFAULT_N_RESULTS == 3

None == 0

Min(a, b) == IF a < b THEN a ELSE b
Max(a, b) == IF a > b THEN a ELSE b

Omitted == [given |-> FALSE, value |-> 0]
Given(n) == [given |-> TRUE, value |-> n]

IntId(i) == [t |-> "int", v |-> i]
DigitString(i) == [t |-> "digits", v |-> i]
NoSourceId == [t |-> "other", v |-> 0]

\* _parse_source_id: an int, or a string of digits converted by int().
_parse_source_id(payload) ==
    CASE payload.t = "int" -> payload.v
      [] payload.t = "digits" -> payload.v
      [] OTHER -> None

Range(seq) == {seq[i] : i \in 1..Len(seq)}

SeqsUpTo(S, n) == UNION {[1..k -> S] : k \in 0..n}

RECURSIVE select_loop_any_id(_, _, _, _, _)
select_loop_any_id(results, i, allowed, n_sources, selected) ==
    IF i > Len(results) THEN selected
    ELSE LET source_id == _parse_source_id(results[i]) IN
         IF source_id = None \/ source_id \in Range(selected)
         THEN select_loop_any_id(results, i + 1, allowed, n_sources, selected)
         ELSE LET appended == Append(selected, source_id) IN
              IF Len(appended) >= n_sources THEN appended
              ELSE select_loop_any_id(results, i + 1, allowed, n_sources, appended)

RECURSIVE select_loop_late_break(_, _, _, _, _)
select_loop_late_break(results, i, allowed, n_sources, selected) ==
    IF i > Len(results) THEN selected
    ELSE LET source_id == _parse_source_id(results[i]) IN
         IF \/ source_id = None
            \/ source_id \notin allowed
            \/ source_id \in Range(selected)
         THEN select_loop_late_break(results, i + 1, allowed, n_sources, selected)
         ELSE LET appended == Append(selected, source_id) IN
              IF Len(appended) > n_sources THEN appended
              ELSE select_loop_late_break(results, i + 1, allowed, n_sources, appended)

\* The loop of _select_source_ids from result i on.
RECURSIVE select_loop(_, _, _, _, _)
select_loop(results, i, allowed, n_sources, selected) ==
    IF i > Len(results) THEN selected
    ELSE LET source_id == _parse_source_id(results[i]) IN
         IF \/ source_id = None
            \/ source_id \notin allowed
            \/ source_id \in Range(selected)
         THEN select_loop(results, i + 1, allowed, n_sources, selected)
         ELSE LET appended == Append(selected, source_id) IN
              IF Len(appended) >= n_sources THEN appended
              ELSE select_loop(results, i + 1, allowed, n_sources, appended)

_select_source_ids(source_level_results, allowed, n_sources) ==
    select_loop(source_level_results, 1, allowed, n_sources, <<>>)

_normalize_n_results_no_max(requested, default) ==
    IF ~requested.given THEN default
    ELSE Max(requested.value, MIN_RESULTS)

\* _normalize_n_results: the default as it is, a given value clamped.
_normalize_n_results(requested, default) ==
    IF ~requested.given THEN default
    ELSE Min(Max(requested.value, MIN_RESULTS), MAX_RESULTS)

(***************************************************************************)
(* Filters.  A raw spec is a scalar or a dict; of a dict the model keeps   *)
(* its keys and the shape of its "in" and "range" values.                  *)
(***************************************************************************)
ScalarSpec == [is_dict |-> FALSE, keys |-> {}, in_value |-> "none",
               range_value |-> "none"]
EqSpec == [is_dict |-> TRUE, keys |-> {"eq"}, in_value |-> "none",
           range_value |-> "none"]
InSpec(shape) == [is_dict |-> TRUE, keys |-> {"in"}, in_value |-> shape,
                  range_value |-> "none"]
RangeSpec(shape) == [is_dict |-> TRUE, keys |-> {"range"}, in_value |-> "none",
                     range_value |-> shape]
LikeSpec == [is_dict |-> TRUE, keys |-> {"like"}, in_value |-> "none",
             range_value |-> "none"]
\* {"eq": v, "in": []}: two operators in one dict.
EqInSpec == [is_dict |-> TRUE, keys |-> {"eq", "in"}, in_value |-> "empty_list",
             range_value |-> "none"]

NoFilters == [given |-> FALSE, entries |-> <<>>]
Filters(entries) == [given |-> TRUE, entries |-> entries]

Accepted(field, op) == [ok |-> TRUE, key |-> field, op |-> op, err |-> "none"]
Rejected(field, err) == [ok |-> FALSE, key |-> field, op |-> "none", err |-> err]

\* A condition builder that accepts every field name.
_build_filter_condition_any_field(field_name, raw_spec, allowed_fields) ==
    IF ~raw_spec.is_dict
    THEN Accepted(field_name, "match_value")
    ELSE IF "eq" \in raw_spec.keys
    THEN Accepted(field_name, "match_value")
    ELSE IF "in" \in raw_spec.keys
    THEN IF raw_spec.in_value # "list"
         THEN Rejected(field_name, "in must be non-empty list")
         ELSE Accepted(field_name, "match_any")
    ELSE IF "range" \in raw_spec.keys /\ raw_spec.range_value # "not_dict"
    THEN IF raw_spec.range_value # "bounds"
         THEN Rejected(field_name, "range must contain gt/gte/lt/lte")
         ELSE Accepted(field_name, "range")
    ELSE Rejected(field_name, "unsupported filter operator")

\* _build_filter_condition: a FieldCondition, or the ValueError it raises.
_build_filter_condition(field_name, raw_spec, allowed_fields) ==
    IF field_name \notin allowed_fields
    THEN Rejected(field_name, "is not allowed")
    ELSE IF ~raw_spec.is_dict
    THEN Accepted(field_name, "match_value")
    ELSE IF "eq" \in raw_spec.keys
    THEN Accepted(field_name, "match_value")
    ELSE IF "in" \in raw_spec.keys
    THEN IF raw_spec.in_value # "list"
         THEN Rejected(field_name, "in must be non-empty list")
         ELSE Accepted(field_name, "match_any")
    ELSE IF "range" \in raw_spec.keys /\ raw_spec.range_value # "not_dict"
    THEN IF raw_spec.range_value # "bounds"
         THEN Rejected(field_name, "range must contain gt/gte/lt/lte")
         ELSE Accepted(field_name, "range")
    ELSE Rejected(field_name, "unsupported filter operator")

NoQueryFilter == [none |-> TRUE, must |-> <<>>]

\* _build_query_filter: None for no filters, else the conditions in the
\* order of the dict; the first rejected entry raises.
_build_query_filter(filters, allowed_fields) ==
    IF ~filters.given \/ Len(filters.entries) = 0
    THEN [ok |-> TRUE, filter |-> NoQueryFilter, err |-> "none", key |-> "none"]
    ELSE LET conditions == [i \in 1..Len(filters.entries) |->
                 _build_filter_condition(filters.entries[i].field,
                                         filters.entries[i].spec, allowed_fields)]
             bad == {i \in 1..Len(conditions) : ~conditions[i].ok}
             first == CHOOSE i \in bad : \A j \in bad : i <= j
         IN IF bad # {}
            THEN [ok |-> FALSE, filter |-> NoQueryFilter,
                  err |-> conditions[first].err, key |-> conditions[first].key]
            ELSE [ok |-> TRUE, filter |-> [none |-> FALSE, must |-> conditions],
                  err |-> "none", key |-> "none"]

(***************************************************************************)
(* Vector store reads (ai/vector_store.py).                                *)
(***************************************************************************)
\* search: nothing for limit <= 0 or a missing collection; else the best
\* `limit` points that satisfy the filter, best first.
search(ranking, limit, query_filter) ==
    IF limit <= 0 THEN <<>>
    ELSE LET hits == IF query_filter.none THEN ranking
                     ELSE SelectSeq(ranking, LAMBDA p : p.match)
         IN SubSeq(hits, 1, Min(limit, Len(hits)))

\* The raw score of the store, whatever the metric.
relevance_score_raw(score, distance) == score

\* relevance_score: distances are negated, similarities kept.
relevance_score(score, distance) ==
    IF distance \in {"EUCLID", "MANHATTAN"} THEN 0 - score ELSE score

(***************************************************************************)
(* Ranking and formatting.                                                 *)
(***************************************************************************)
Chunk(point, source_id, distance) ==
    [score |-> relevance_score(point.score, distance), source_id |-> source_id,
     document |-> point.document, row_id |-> point.row_id]

\* The points of one search that _collect_ranked_chunks appends: those with
\* a non-blank string document.
AppendChunks(chunks, points, source_id, distance) ==
    chunks \o [i \in 1..Len(SelectSeq(points, LAMBDA p : p.document # 0)) |->
                 Chunk(SelectSeq(points, LAMBDA p : p.document # 0)[i],
                       source_id, distance)]

insert_before_ties(sorted, chunk) ==
    LET k == Cardinality({i \in 1..Len(sorted) : sorted[i].score > chunk.score})
    IN SubSeq(sorted, 1, k) \o <<chunk>> \o SubSeq(sorted, k + 1, Len(sorted))

\* One step of the stable descending sort: the chunk goes after every chunk
\* whose score is not lower.
insert_sorted(sorted, chunk) ==
    LET k == Cardinality({i \in 1..Len(sorted) : sorted[i].score >= chunk.score})
    IN SubSeq(sorted, 1, k) \o <<chunk>> \o SubSeq(sorted, k + 1, Len(sorted))

\* ranked_chunks.sort(key=score, reverse=True)
RECURSIVE sort_by_score(_)
sort_by_score(chunks) ==
    IF Len(chunks) = 0 THEN <<>>
    ELSE insert_sorted(sort_by_score(SubSeq(chunks, 1, Len(chunks) - 1)),
                       chunks[Len(chunks)])

Passage(chunk) ==
    [source_id |-> chunk.source_id, row_id |-> chunk.row_id,
     document |-> chunk.document]

\* The loop of _format_ranked_chunks from chunk i on.
RECURSIVE dedup_loop(_, _, _, _, _)
dedup_loop(sorted, i, seen_documents, deduplicated_results, n_results) ==
    IF i > Len(sorted) THEN deduplicated_results
    ELSE IF sorted[i].document \in seen_documents
    THEN dedup_loop(sorted, i + 1, seen_documents, deduplicated_results, n_results)
    ELSE LET kept == Append(deduplicated_results, Passage(sorted[i])) IN
         IF Len(kept) >= n_results THEN kept
         ELSE dedup_loop(sorted, i + 1, seen_documents \cup {sorted[i].document},
                         kept, n_results)

_format_ranked_chunks(chunks, n_results) ==
    dedup_loop(sort_by_score(chunks), 1, {}, <<>>, n_results)

(***************************************************************************)
(* The retrieve call, one action per awaited call.                         *)
(***************************************************************************)
NoResult == [kind |-> "none", detail |-> "none", passages |-> <<>>]
Message(kind) == [kind |-> kind, detail |-> "none", passages |-> <<>>]
InvalidFilters(detail) ==
    [kind |-> "Invalid retrieve filters", detail |-> detail, passages |-> <<>>]
Passages(passages) == [kind |-> "passages", detail |-> "none", passages |-> passages]

\* The source-level index collection in the io log.
SOURCES_INDEX == 0

SearchCall(collection, limit, query_filter) ==
    [op |-> "search", collection |-> collection, limit |-> limit,
     filtered |-> ~query_filter.none, must |-> query_filter.must]
ReadCall(table, id) ==
    [op |-> table, collection |-> id, limit |-> 0, filtered |-> FALSE,
     must |-> <<>>]

RetrieveStartUnchecked ==
    /\ rpc = "start"
    /\ IF ~deps.configured
       THEN /\ result' = Message("Retrieve tool is not configured for this run")
            /\ rpc' = "done"
            /\ UNCHANGED <<allowed_source_ids, effective_n_results>>
       ELSE /\ allowed_source_ids' = IF deps.source_ids # {} THEN deps.source_ids
                                     ELSE deps.session_source_ids
            /\ effective_n_results' =
                   _normalize_n_results(call.n_results, deps.n_results)
            /\ rpc' = "source_level_search"
            /\ UNCHANGED result
    /\ UNCHANGED <<deps, call, store, selected_source_ids, cursor, ranked_chunks, io,
                   pvars, xvars>>

\* retrieve up to the first await: the configuration and scope checks and
\* the effective limit.
RetrieveStart ==
    /\ rpc = "start"
    /\ IF ~deps.configured
       THEN /\ result' = Message("Retrieve tool is not configured for this run")
            /\ rpc' = "done"
            /\ UNCHANGED <<allowed_source_ids, effective_n_results>>
       ELSE LET allowed == IF deps.source_ids # {} THEN deps.source_ids
                           ELSE deps.session_source_ids
            IN IF allowed = {}
               THEN /\ result' = Message("No sources attached to this session")
                    /\ rpc' = "done"
                    /\ UNCHANGED <<allowed_source_ids, effective_n_results>>
               ELSE /\ allowed_source_ids' = allowed
                    /\ effective_n_results' =
                           _normalize_n_results(call.n_results, deps.n_results)
                    /\ rpc' = "source_level_search"
                    /\ UNCHANGED result
    /\ UNCHANGED <<deps, call, store, selected_source_ids, cursor, ranked_chunks, io,
                   pvars, xvars>>

\* Stage 1: the search of the source-level index and _select_source_ids.
SourceLevelSearch ==
    /\ rpc = "source_level_search"
    /\ LET limit == Max(deps.n_sources * 4, deps.n_sources)
           source_level_results == search(store.index, limit, NoQueryFilter)
           selected == _select_source_ids(source_level_results,
                                          allowed_source_ids, deps.n_sources)
       IN /\ io' = Append(io, SearchCall(SOURCES_INDEX, limit, NoQueryFilter))
          /\ IF Len(selected) = 0
             THEN /\ result' = Message("No data results found")
                  /\ rpc' = "done"
                  /\ UNCHANGED <<selected_source_ids, cursor>>
             ELSE /\ selected_source_ids' = selected
                  /\ cursor' = 1
                  /\ rpc' = "collect"
                  /\ UNCHANGED result
    /\ UNCHANGED <<deps, call, store, allowed_source_ids, effective_n_results,
                   ranked_chunks, pvars, xvars>>

\* Stage 2, one iteration of the loop of _collect_ranked_chunks: read the
\* source, build the filter of a DB source, search its collection.
CollectSource ==
    /\ rpc = "collect"
    /\ cursor <= Len(selected_source_ids)
    /\ LET source_id == selected_source_ids[cursor]
           source == store.rows[source_id]
           built == IF source.kind = "db"
                    THEN _build_query_filter(call.filters, source.filter_fields)
                    ELSE _build_query_filter(NoFilters, {})
           points == search(store.colls[source_id], effective_n_results,
                            built.filter)
       IN IF source.kind = "missing"
          THEN /\ io' = Append(io, ReadCall("sources", source_id))
               /\ cursor' = cursor + 1
               /\ UNCHANGED <<rpc, ranked_chunks, result>>
          ELSE IF ~built.ok
          THEN /\ io' = io \o <<ReadCall("sources", source_id),
                                ReadCall("source_dbs", source_id)>>
               /\ result' = InvalidFilters([key |-> built.key, err |-> built.err])
               /\ rpc' = "done"
               /\ UNCHANGED <<cursor, ranked_chunks>>
          ELSE /\ io' = io \o <<ReadCall("sources", source_id),
                                ReadCall("source_dbs", source_id),
                                SearchCall(source_id, effective_n_results,
                                           built.filter)>>
               /\ ranked_chunks' = AppendChunks(ranked_chunks, points, source_id,
                                                store.distance)
               /\ cursor' = cursor + 1
               /\ UNCHANGED <<rpc, result>>
    /\ UNCHANGED <<deps, call, store, allowed_source_ids, effective_n_results,
                   selected_source_ids, pvars, xvars>>

\* The end of retrieve: no chunk is "No data results found", else the
\* formatted passages.
FormatResult ==
    /\ rpc = "collect"
    /\ cursor > Len(selected_source_ids)
    /\ result' = IF Len(ranked_chunks) = 0 THEN Message("No data results found")
                 ELSE Passages(_format_ranked_chunks(ranked_chunks,
                                                     effective_n_results))
    /\ rpc' = "done"
    /\ UNCHANGED <<deps, call, store, allowed_source_ids, effective_n_results,
                   selected_source_ids, cursor, ranked_chunks, io, pvars, xvars>>

RNext ==
    \/ RetrieveStart
    \/ SourceLevelSearch
    \/ CollectSource
    \/ FormatResult

(***************************************************************************)
(* Indexing of a DB source (flows/source_processing/indexing.py) into its  *)
(* collection (ai/vector_store.py).  A cell value is a scalar, numbered    *)
(* from 1, None being SQL NULL; the text of a scalar carries its number,   *)
(* which is also its length in characters; the text 0 is the empty string. *)
(***************************************************************************)
MaxCell == 2
MaxEdits == 2

\* The columns of the mapped table.
Columns == {"id", "body", "source_id", "document"}

Cells == 0..MaxCell

\* SourceUsecase._validate_field_mapping: every mapped field is a column of
\* the table and no filter field is listed twice.
_validate_field_mapping(columns, id_field, search_field, filter_fields) ==
    /\ \A field \in {id_field, search_field} \cup Range(filter_fields) :
          field \in columns
    /\ \A i, j \in 1..Len(filter_fields) :
          filter_fields[i] = filter_fields[j] => i = j

\* _normalize_point_id: uuid5 of the logical key under a fixed namespace.
_normalize_point_id(point_id) == [uuid5 |-> point_id]

\* _embed_texts: the embedding is a function of the text.
_embed_texts(text) == [embedding |-> text]

\* _normalize_payload_value: None and scalars are stored as they are.
_normalize_payload_value(value) == value

NoPoint == [given |-> FALSE, point_id |-> <<>>, text |-> 0, payload |-> <<>>,
            row_id |-> 0]

\* Two more cell values: a string of spaces, and the integer 0, whose text
\* is "0".
Blank == 0 - 1
Zero == 0 - 2

\* value or "": None, 0 and the empty string give the empty string.
or_empty(value) == IF value \in {None, Zero} THEN 0 ELSE value

\* str(...).strip()
strip(text) == IF text = Blank THEN 0 ELSE text

\* _prepare_db_point: None for a NULL id or a blank text; else the point id
\* "db:<source_id>:<row_id>", the text and the payload, where each filter
\* field is written into the payload after the fixed entries.
_prepare_db_point(source_id, mapping, row) ==
    LET row_id_value == row[mapping.id_field]
        text == strip(or_empty(row[mapping.search_field]))
        row_id == row_id_value
        payload == [f \in Range(mapping.filter_fields) |->
                       _normalize_payload_value(row[f])]
                   @@ [source_id |-> source_id, source_backend |-> "db",
                       row_id |-> row_id]
    IN IF row_id_value = None THEN NoPoint
       ELSE IF text = 0 THEN NoPoint
       ELSE [given |-> TRUE, point_id |-> <<"db", source_id, row_id>>,
             text |-> text, payload |-> payload, row_id |-> row_id]

\* upsert_chunks: PointStruct(id=_normalize_point_id(point_id), vector,
\* payload={"document": text, **payload}).
PointStruct(point_id, text, payload) ==
    [id |-> _normalize_point_id(point_id), vector |-> _embed_texts(text),
     payload |-> payload @@ [document |-> text]]

NoUpsert == [given |-> FALSE, text |-> 0, payload |-> <<>>]

\* _index_db_source, one streamed batch of one row: the row is skipped or
\* upserted under its point id.
IndexDbRow ==
    /\ source_db.pc = "ready"
    /\ LET point == _prepare_db_point(source_db.source_id, source_db.mapping,
                                      source_db.row)
       IN IF ~point.given
          THEN UNCHANGED <<db_collection, latest>>
          ELSE /\ db_collection' = upsert_chunks(db_collection,
                     {PointStruct(point.point_id, point.text, point.payload)})
               /\ latest' = [latest EXCEPT ![point.row_id] =
                     [given |-> TRUE, text |-> point.text, payload |-> point.payload]]
    /\ source_db' = [source_db EXCEPT !.indexed = TRUE]
    /\ UNCHANGED <<conn, scoring, ident, sessions, response, pvars, rvars>>

\* The mapped table changes between two indexing runs: one cell of the row
\* gets another value.
UpdateRow(column, value) ==
    /\ source_db.pc = "ready"
    /\ source_db.edits < MaxEdits
    /\ source_db.row[column] # value
    /\ source_db' = [source_db EXCEPT !.row[column] = value, !.edits = @ + 1,
                                      !.indexed = FALSE]
    /\ UNCHANGED <<db_collection, latest, conn, scoring, ident, sessions, response,
                   pvars, rvars>>

\* constants/summary.py is not part of the snapshot: the model takes small
\* values for the two limits of the digest.
DB_SUMMARY_SAMPLE_LIMIT == 3
DB_SUMMARY_TEXT_PREVIEW_LENGTH == 1

MaxBatches == 2
MaxBatchLen == 2

\* _build_db_summary_header: one line naming the table and the mapping.
_build_db_summary_header(mapping) == [header |-> mapping]

\* f"row {row_id}: {text[:DB_SUMMARY_TEXT_PREVIEW_LENGTH]}"
SummaryLine(row_id, text) ==
    [row_id |-> row_id, preview |-> Min(text, DB_SUMMARY_TEXT_PREVIEW_LENGTH)]

\* The loop over the rows of one batch from the i-th row on: acc holds the
\* points of the batch and the summary chunks so far.
RECURSIVE batch_loop(_, _, _, _, _)
batch_loop(source_id, mapping, batch_rows, i, acc) ==
    IF i > Len(batch_rows) THEN acc
    ELSE LET point == _prepare_db_point(source_id, mapping, batch_rows[i]) IN
         IF ~point.given
         THEN batch_loop(source_id, mapping, batch_rows, i + 1, acc)
         ELSE batch_loop(source_id, mapping, batch_rows, i + 1,
                [batch_points |-> Append(acc.batch_points, point),
                 summary_chunks |->
                     IF Len(acc.summary_chunks) < DB_SUMMARY_SAMPLE_LIMIT
                     THEN Append(acc.summary_chunks,
                                 SummaryLine(point.row_id, point.text))
                     ELSE acc.summary_chunks])

\* _index_db_source, one iteration of `async for batch_rows in row_stream`:
\* the points of the batch, the digest, and one upsert_chunks call when
\* the batch has a point.
IndexDbBatch ==
    /\ source_db.pc = "streaming"
    /\ source_db.cursor < Len(source_db.stream)
    /\ LET batch_rows == source_db.stream[source_db.cursor + 1]
           done == batch_loop(source_db.source_id, source_db.mapping, batch_rows, 1,
                              [batch_points |-> <<>>,
                               summary_chunks |-> source_db.summary_chunks])
       IN /\ source_db' = [source_db EXCEPT
                 !.cursor = @ + 1,
                 !.summary_chunks = done.summary_chunks,
                 !.upserts = IF Len(done.batch_points) > 0
                             THEN Append(@, done.batch_points) ELSE @]
          /\ db_collection' = upsert_chunks(db_collection,
                 {PointStruct(done.batch_points[k].point_id,
                              done.batch_points[k].text,
                              done.batch_points[k].payload) :
                      k \in 1..Len(done.batch_points)})
    /\ UNCHANGED <<latest, conn, scoring, ident, sessions, response, pvars, rvars>>

\* _index_db_source: the stream has ended, summary_chunks is returned.
IndexDbReturn ==
    /\ source_db.pc = "streaming"
    /\ source_db.cursor = Len(source_db.stream)
    /\ source_db' = [source_db EXCEPT !.pc = "returned"]
    /\ UNCHANGED <<db_collection, latest, conn, scoring, ident, sessions, response,
                   pvars, rvars>>

BNext ==
    \/ IndexDbBatch
    \/ IndexDbReturn

INext ==
    \/ IndexDbRow
    \/ \E column \in Columns, value \in Cells : UpdateRow(column, value)

(***************************************************************************)
(* Relational connectors (db/connectors/postgres.py, clickhouse.py).  The  *)
(* identifiers of the call are valid; the table has rows 1..n_rows and     *)
(* does not change during the call.                                        *)
(***************************************************************************)
MaxRows == 3
MaxBatchSize == 2

\* The exception types that reach the caller.
NoError == [type |-> "none", message |-> "none"]
SourceDbConnectorError(message) ==
    [type |-> "SourceDbConnectorError", message |-> message]
\* The exception of the driver (asyncpg), not wrapped.
DriverError(message) == [type |-> "driver", message |-> message]

(***************************************************************************)
(* validate_identifier (db/connectors/common.py).  A string is a sequence  *)
(* of characters.                                                          *)
(***************************************************************************)
MaxIdentLen == 3

Letters == {"a", "Z"}
Digits == {"7"}
Chars == Letters \cup Digits \cup {"_", "'", ";", " "}

\* constants/db.py: a letter or underscore, then letters, digits and
\* underscores.
IDENTIFIER_PATTERN ==
    [head |-> Letters \cup {"_"}, tail |-> Letters \cup Digits \cup {"_"}]

\* re.Pattern.match: the pattern matches a prefix of the value.
prefix_match(pattern, value) == Len(value) >= 1 /\ value[1] \in pattern.head

\* re.Pattern.fullmatch: the pattern matches the whole value.
fullmatch(pattern, value) ==
    /\ Len(value) >= 1
    /\ value[1] \in pattern.head
    /\ \A i \in 2..Len(value) : value[i] \in pattern.tail

Returned(value) == [kind |-> "returned", value |-> value, error |-> NoError]
Failed(error) == [kind |-> "raised", value |-> <<>>, error |-> error]

validate_identifier_prefix(value, field_name) ==
    IF ~prefix_match(IDENTIFIER_PATTERN, value)
    THEN Failed(SourceDbConnectorError(<<"Invalid", field_name, value>>))
    ELSE Returned(value)

\* validate_identifier: the value itself, or SourceDbConnectorError
\* "Invalid <field_name>: <value>".
validate_identifier(value, field_name) ==
    IF ~fullmatch(IDENTIFIER_PATTERN, value)
    THEN Failed(SourceDbConnectorError(<<"Invalid", field_name, value>>))
    ELSE Returned(value)

ValidateIdentifier ==
    /\ ident.pc = "start"
    /\ ident' = [ident EXCEPT !.pc = "done",
                              !.outcome = validate_identifier(ident.value,
                                                              ident.field_name)]
    /\ UNCHANGED <<source_db, db_collection, latest, conn, scoring, sessions, response,
                   pvars, rvars>>

(***************************************************************************)
(* Relational connectors: the calls.                                        *)
(***************************************************************************)
MaxColumns == 2

\* The identifiers a call is made with: two that are valid and two that are
\* not.
Names == {<<"a">>, <<"_", "7">>, <<"a", ";">>, <<"7">>}

\* The orders in which the engine can return the rows of a SELECT that has
\* no ORDER BY clause.
RowOrders(n) ==
    {q \in [1..n -> 1..n] : \A i, j \in 1..n : q[i] = q[j] => i = j}

\* SELECT ... LIMIT limit OFFSET offset over the rows in the order the
\* engine produced for this query.
LimitOffset(order, limit, offset) ==
    SubSeq(order, offset + 1, Min(offset + limit, Len(order)))

\* _quote_postgres_identifier / _quote_clickhouse_identifier: the validated
\* identifier between the engine's quoting characters.
quote_identifier(engine, value) ==
    [quote |-> IF engine = "postgres" THEN "double_quote" ELSE "backtick",
     identifier |-> validate_identifier(value, "identifier").value]

\* The text of the SELECT of a stream: the quoted columns, schema and table,
\* and the placeholders of LIMIT and OFFSET.
StreamQuery(engine, schema_name, table_name, columns) ==
    [select |-> [i \in 1..Len(columns) |-> quote_identifier(engine, columns[i])],
     from |-> <<quote_identifier(engine, schema_name),
                quote_identifier(engine, table_name)>>,
     limit |-> IF engine = "postgres" THEN "$1" ELSE "%(limit)s",
     offset |-> IF engine = "postgres" THEN "$2" ELSE "%(offset)s"]

NoQuery == [select |-> <<>>, from |-> <<>>, limit |-> "none", offset |-> "none"]

\* The identifiers in the order the stream validates them: the columns,
\* the schema, the table.
Identifiers(c) ==
    [i \in 1..Len(c.columns) |-> [value |-> c.columns[i], field_name |-> "column"]]
        \o <<[value |-> c.schema_name, field_name |-> "schema"],
             [value |-> c.table_name, field_name |-> "table"]>>

\* The first identifier that validate_identifier refuses, 0 when none.
FirstInvalid(c) ==
    LET ids == Identifiers(c)
        bad == {i \in 1..Len(ids) :
                   validate_identifier(ids[i].value, ids[i].field_name).kind = "raised"}
    IN IF bad = {} THEN 0 ELSE CHOOSE i \in bad : \A j \in bad : i <= j

\* A stream that builds its query from the identifiers as they are.
build_stream_query_unvalidated ==
    /\ conn.pc = "start"
    /\ conn.op = "stream_rows"
    /\ conn' = [conn EXCEPT
          !.pc = "connect",
          !.query = [StreamQuery(conn.engine, conn.schema_name, conn.table_name,
                                 conn.columns)
                     EXCEPT !.select = [i \in 1..Len(conn.columns) |->
                                           [quote |-> "none",
                                            identifier |-> conn.columns[i]]],
                            !.from = <<[quote |-> "none",
                                        identifier |-> conn.schema_name],
                                       [quote |-> "none",
                                        identifier |-> conn.table_name]>>]]
    /\ UNCHANGED <<source_db, db_collection, latest, scoring, ident, sessions,
                   response, pvars, rvars>>

\* stream_postgres_rows / stream_clickhouse_rows up to the query text: every
\* column, the schema and the table are validated and quoted; the first
\* invalid one raises SourceDbConnectorError.
build_stream_query ==
    /\ conn.pc = "start"
    /\ conn.op = "stream_rows"
    /\ LET i == FirstInvalid(conn) IN
       IF i # 0
       THEN conn' = [conn EXCEPT
                !.pc = "done", !.failure = "identifier",
                !.rejected = validate_identifier(Identifiers(conn)[i].value,
                                                 Identifiers(conn)[i].field_name),
                !.raised = SourceDbConnectorError("identifier")]
       ELSE conn' = [conn EXCEPT
                !.pc = "connect",
                !.query = StreamQuery(conn.engine, conn.schema_name,
                                      conn.table_name, conn.columns)]
    /\ UNCHANGED <<source_db, db_collection, latest, scoring, ident, sessions,
                   response, pvars, rvars>>

\* asyncpg.connect of introspect_postgres and stream_postgres_rows: the
\* call stands before the try block.
asyncpg_connect ==
    /\ conn.pc = "connect"
    /\ conn.engine = "postgres"
    /\ \/ conn' = [conn EXCEPT !.pc = "fetch", !.open = @ + 1, !.opened = @ + 1]
       \/ conn' = [conn EXCEPT !.pc = "done", !.failure = "connect",
                               !.raised = DriverError("connect")]
    /\ UNCHANGED <<source_db, db_collection, latest, scoring, ident, sessions,
                   response, pvars, rvars>>

\* introspect_postgres: conn.fetch inside try / except Exception / finally
\* conn.close().
introspect_postgres ==
    /\ conn.pc = "fetch"
    /\ conn.engine = "postgres"
    /\ conn.op = "introspect"
    /\ \/ conn' = [conn EXCEPT !.pc = "done", !.open = @ - 1, !.returned = TRUE]
       \/ conn' = [conn EXCEPT !.pc = "done", !.open = @ - 1, !.failure = "query",
                               !.raised = SourceDbConnectorError("query")]
    /\ UNCHANGED <<source_db, db_collection, latest, scoring, ident, sessions,
                   response, pvars, rvars>>

\* stream_postgres_rows, one iteration of the loop: fetch with LIMIT
\* batch_size OFFSET offset; an empty result ends the stream, else the batch
\* is yielded and the offset advances by its length.
stream_postgres_rows ==
    /\ conn.pc = "fetch"
    /\ conn.engine = "postgres"
    /\ conn.op = "stream_rows"
    /\ \/ \E order \in RowOrders(conn.n_rows) :
             LET rows == LimitOffset(order, conn.batch_size, conn.offset) IN
             IF Len(rows) = 0
             THEN conn' = [conn EXCEPT !.queries = Append(@, conn.offset),
                                       !.pc = "done", !.open = @ - 1,
                                       !.returned = TRUE]
             ELSE conn' = [conn EXCEPT !.queries = Append(@, conn.offset),
                                       !.batches = Append(@, rows),
                                       !.offset = @ + Len(rows)]
       \/ conn' = [conn EXCEPT !.queries = Append(@, conn.offset),
                               !.pc = "done", !.open = @ - 1, !.failure = "query",
                               !.raised = SourceDbConnectorError("query")]
    /\ UNCHANGED <<source_db, db_collection, latest, scoring, ident, sessions,
                   response, pvars, rvars>>

\* clickhouse_connect.get_client in _query / _query_batch: a client per
\* call of the function; the code never closes it, so whether its
\* connection is still open afterwards is the library's choice.
ClientsAfter(c) ==
    {[c EXCEPT !.opened = @ + 1, !.open = @ + kept] : kept \in {0, 1}}

\* introspect_clickhouse: get_client and query run in _query, inside try /
\* except Exception.
introspect_clickhouse ==
    /\ conn.pc = "connect"
    /\ conn.engine = "clickhouse"
    /\ conn.op = "introspect"
    /\ \/ \E c \in ClientsAfter(conn) :
             conn' = [c EXCEPT !.pc = "done", !.returned = TRUE]
       \/ \E c \in ClientsAfter(conn) :
             conn' = [c EXCEPT !.pc = "done", !.failure = "query",
                               !.raised = SourceDbConnectorError("query")]
       \/ conn' = [conn EXCEPT !.pc = "done", !.failure = "connect",
                               !.raised = SourceDbConnectorError("connect")]
    /\ UNCHANGED <<source_db, db_collection, latest, scoring, ident, sessions,
                   response, pvars, rvars>>

\* stream_clickhouse_rows, one iteration of the loop: _query_batch opens a
\* client and queries with LIMIT batch_size OFFSET offset, inside try /
\* except Exception.
stream_clickhouse_rows ==
    /\ conn.pc = "connect"
    /\ conn.engine = "clickhouse"
    /\ conn.op = "stream_rows"
    /\ \/ \E order \in RowOrders(conn.n_rows), c \in ClientsAfter(conn) :
             LET rows == LimitOffset(order, conn.batch_size, conn.offset) IN
             IF Len(rows) = 0
             THEN conn' = [c EXCEPT !.queries = Append(@, conn.offset),
                                    !.pc = "done", !.returned = TRUE]
             ELSE conn' = [c EXCEPT !.queries = Append(@, conn.offset),
                                    !.batches = Append(@, rows),
                                    !.offset = @ + Len(rows)]
       \/ \E c \in ClientsAfter(conn) :
             conn' = [c EXCEPT !.queries = Append(@, conn.offset),
                               !.pc = "done", !.failure = "query",
                               !.raised = SourceDbConnectorError("query")]
       \/ conn' = [conn EXCEPT !.pc = "done", !.failure = "connect",
                               !.raised = SourceDbConnectorError("connect")]
    /\ UNCHANGED <<source_db, db_collection, latest, scoring, ident, sessions,
                   response, pvars, rvars>>

\* The consumer of a stream leaves its `async for` while the generator is
\* suspended at a yield (_index_db_source: upsert_chunks raised); nothing
\* closes the generator at that point.
consumer_stops ==
    /\ conn.op = "stream_rows"
    /\ conn.pc \in {"fetch", "connect"}
    /\ Len(conn.batches) >= 1
    /\ conn' = [conn EXCEPT !.pc = "abandoned"]
    /\ UNCHANGED <<source_db, db_collection, latest, scoring, ident, sessions,
                   response, pvars, rvars>>

\* The interpreter finalizes the abandoned generator: GeneratorExit at the
\* yield runs the finally block of stream_postgres_rows (conn.close()).
finalize_stream ==
    /\ conn.pc = "abandoned"
    /\ conn' = [conn EXCEPT !.pc = "closed",
                            !.open = IF conn.engine = "postgres" THEN @ - 1 ELSE @]
    /\ UNCHANGED <<source_db, db_collection, latest, scoring, ident, sessions,
                   response, pvars, rvars>>

CNext ==
    \/ build_stream_query
    \/ asyncpg_connect
    \/ introspect_postgres
    \/ stream_postgres_rows
    \/ introspect_clickhouse
    \/ stream_clickhouse_rows
    \/ consumer_stops
    \/ finalize_stream

(***************************************************************************)
(* The configured metric and relevance_score (ai/vector_store.py).         *)
(***************************************************************************)
MaxScore == 3

\* Values of qdrant_settings.distance.
DistanceSettings ==
    {"COSINE", "Cosine", "DOT", "dot", "EUCLID", "euclid", "MANHATTAN",
     "Manhattan", "l2"}

\* str.upper on the settings.
upper(setting) ==
    CASE setting \in {"COSINE", "Cosine"} -> "COSINE"
      [] setting \in {"DOT", "dot"} -> "DOT"
      [] setting \in {"EUCLID", "euclid"} -> "EUCLID"
      [] setting \in {"MANHATTAN", "Manhattan"} -> "MANHATTAN"
      [] OTHER -> "L2"

\* _resolve_distance: distance_map.get(setting.upper(), COSINE).
_resolve_distance(setting) ==
    IF upper(setting) \in {"COSINE", "DOT", "EUCLID", "MANHATTAN"}
    THEN upper(setting)
    ELSE "COSINE"

\* relevance_score of the two raw scores under the configured metric.
ScoreBoth ==
    /\ scoring.pc = "start"
    /\ scoring' = [scoring EXCEPT
          !.pc = "scored",
          !.ra = relevance_score(scoring.a, _resolve_distance(scoring.setting)),
          !.rb = relevance_score(scoring.b, _resolve_distance(scoring.setting))]
    /\ UNCHANGED <<source_db, db_collection, latest, conn, ident, sessions, response,
                   pvars, rvars>>

(***************************************************************************)
(* SessionUsecase (usecases/session.py): one action per request, the       *)
(* sources table as the request finds it.                                  *)
(***************************************************************************)
MaxSessions == 2
MaxIds == 2
MaxMessages == 1

SessionIds == 1..MaxSessions

NoSession == [exists |-> FALSE, source_ids |-> {}, messages |-> 0]

\* The outcome of a request: the HTTP status of the raised error, or 200.
Ok == [code |-> 200, error |-> "none"]
SessionValidationError == [code |-> 400, error |-> "SessionValidationError"]
SourceNotFoundError == [code |-> 404, error |-> "SourceNotFoundError"]
SessionConflictError == [code |-> 409, error |-> "SessionConflictError"]
SessionNotFoundError == [code |-> 404, error |-> "SessionNotFoundError"]

Request(op, session_id, source_ids, outcome) ==
    [op |-> op, session_id |-> session_id, source_ids |-> source_ids,
     code |-> outcome.code, error |-> outcome.error]

\* The loop of a validation that accepts a source of any status.
RECURSIVE validate_loop_any_status(_, _)
validate_loop_any_status(source_ids, i) ==
    IF i > Len(source_ids) THEN Ok
    ELSE IF ~sources[source_ids[i]].exists THEN SourceNotFoundError
    ELSE validate_loop_any_status(source_ids, i + 1)

_validate_source_ids_any_status(source_ids) ==
    IF Len(source_ids) # Cardinality(Range(source_ids))
    THEN SessionValidationError
    ELSE validate_loop_any_status(source_ids, 1)

\* The loop of _validate_source_ids from the i-th id on.
RECURSIVE validate_loop(_, _)
validate_loop(source_ids, i) ==
    IF i > Len(source_ids) THEN Ok
    ELSE IF ~sources[source_ids[i]].exists THEN SourceNotFoundError
    ELSE IF sources[source_ids[i]].status # "COMPLETED" THEN SessionConflictError
    ELSE validate_loop(source_ids, i + 1)

\* _validate_source_ids: duplicates first, then each id in order.
_validate_source_ids(source_ids) ==
    IF Len(source_ids) # Cardinality(Range(source_ids))
    THEN SessionValidationError
    ELSE validate_loop(source_ids, 1)

\* create_session: validate, create the session row and its links.
create_session(source_ids) ==
    LET outcome == _validate_source_ids(source_ids)
        free == {id \in SessionIds : ~sessions[id].exists}
        session_id == CHOOSE id \in free : \A other \in free : id <= other
    IN IF outcome # Ok
       THEN /\ response' = Request("create_session", 0, source_ids, outcome)
            /\ UNCHANGED sessions
       ELSE /\ free # {}
            /\ sessions' = [sessions EXCEPT ![session_id] =
                   [exists |-> TRUE, source_ids |-> Range(source_ids),
                    messages |-> 0]]
            /\ response' = Request("create_session", session_id, source_ids, Ok)

\* update_session_sources: the session must exist; validate; delete the
\* links that are no longer listed and create the new ones.
update_session_sources(session_id, source_ids) ==
    LET outcome == IF ~sessions[session_id].exists THEN SessionNotFoundError
                   ELSE _validate_source_ids(source_ids)
        current_ids == sessions[session_id].source_ids
        new_ids == Range(source_ids)
        to_add == new_ids \ current_ids
        to_remove == current_ids \ new_ids
    IN /\ response' = Request("update_session_sources", session_id, source_ids,
                              outcome)
       /\ IF outcome # Ok
          THEN UNCHANGED sessions
          ELSE sessions' = [sessions EXCEPT ![session_id].source_ids =
                               (@ \ to_remove) \cup to_add]

\* delete_session: the messages, the links and the session row.
delete_session(session_id) ==
    /\ sessions' = [sessions EXCEPT ![session_id] = NoSession]
    /\ response' = Request("delete_session", session_id, <<>>, Ok)

\* ChatUsecase.save_message_history for an existing session.
save_message_history(session_id) ==
    /\ sessions[session_id].exists
    /\ sessions[session_id].messages < MaxMessages
    /\ sessions' = [sessions EXCEPT ![session_id].messages = @ + 1]
    /\ response' = Request("save_message_history", session_id, <<>>, Ok)

SNext ==
    /\ \/ \E source_ids \in SeqsUpTo(SourceIds, MaxIds) : create_session(source_ids)
       \/ \E session_id \in SessionIds, source_ids \in SeqsUpTo(SourceIds, MaxIds) :
             update_session_sources(session_id, source_ids)
       \/ \E session_id \in SessionIds : delete_session(session_id)
       \/ \E session_id \in SessionIds : save_message_history(session_id)
    /\ UNCHANGED <<source_db, db_collection, latest, conn, scoring, ident, pvars,
                   rvars>>

(***************************************************************************)
(* Initial states.  The pipeline and the retrieve call are explored        *)
(* separately: each specification holds the other part still.              *)
(***************************************************************************)
RIdle ==
    /\ deps = [configured |-> FALSE, source_ids |-> {}, session_source_ids |-> {},
               n_results |-> DEFAULT_N_RESULTS, n_sources |-> 1]
    /\ call = [filters |-> NoFilters, n_results |-> Omitted]
    /\ store = [index |-> <<>>, rows |-> <<>>, colls |-> <<>>, distance |-> "COSINE"]
    /\ rpc = "idle"
    /\ allowed_source_ids = {}
    /\ effective_n_results = 0
    /\ selected_source_ids = <<>>
    /\ cursor = 0
    /\ ranked_chunks = <<>>
    /\ result = NoResult
    /\ io = <<>>

\* Every source ingested, nothing running.
PIdle ==
    /\ sources = [s \in SourceIds |->
                    [exists |-> TRUE, status |-> "COMPLETED", summary |-> "text",
                     backing |-> TRUE, readable |-> TRUE]]
    /\ runs = [r \in RunIds |-> IdleRun]
    /\ collections = [s \in SourceIds |->
                        [exists |-> TRUE, points |-> {ContentPoint(s, 1)}]]
    /\ sourcesIndex = [exists |-> TRUE,
                       points |-> {SummaryPoint(s) : s \in SourceIds}]
    /\ sessionLinks = SourceIds
    /\ deleter = [src |-> 0, pc |-> "idle"]
    /\ faults = 0

\* A connector call in state pc.
ConnectorCall(pc, engine, op, n_rows, batch_size) ==
    [pc |-> pc, engine |-> engine, op |-> op, n_rows |-> n_rows,
     batch_size |-> batch_size, offset |-> 0, queries |-> <<>>, batches |-> <<>>,
     open |-> 0, opened |-> 0, failure |-> "none", raised |-> NoError,
     returned |-> FALSE, schema_name |-> <<"a">>, table_name |-> <<"a">>,
     columns |-> <<(<<"a">>)>>, query |-> NoQuery,
     rejected |-> [kind |-> "none", value |-> <<>>, error |-> NoError]]

CIdle == conn = ConnectorCall("idle", "postgres", "introspect", 0, 1)

FIdle ==
    /\ scoring = [pc |-> "idle", setting |-> "COSINE", a |-> 0, b |-> 0,
                  ra |-> 0, rb |-> 0]
    /\ ident = [pc |-> "idle", value |-> <<>>, field_name |-> "identifier",
                outcome |-> [kind |-> "none", value |-> <<>>, error |-> NoError]]

SIdle ==
    /\ sessions = [id \in SessionIds |-> NoSession]
    /\ response = Request("none", 0, <<>>, Ok)

\* No DB indexing in progress.
IIdle ==
    /\ source_db = [pc |-> "idle", source_id |-> 0,
                    mapping |-> [id_field |-> "id", search_field |-> "body",
                                 filter_fields |-> <<>>],
                    row |-> [c \in Columns |-> None], edits |-> 0,
                    indexed |-> FALSE]
    /\ db_collection = NoCollection
    /\ latest = [k \in 1..MaxCell |-> NoUpsert]

XIdle == IIdle /\ CIdle /\ FIdle /\ SIdle

\* A retrieve call about to start on the given inputs.
RInit(depsSet, callSet) ==
    /\ deps \in depsSet
    /\ call \in callSet
    /\ rpc = "start"
    /\ allowed_source_ids = {}
    /\ effective_n_results = 0
    /\ selected_source_ids = <<>>
    /\ cursor = 0
    /\ ranked_chunks = <<>>
    /\ result = NoResult
    /\ io = <<>>
    /\ PIdle
    /\ XIdle

MaxHits == 3
MaxNSources == 2
MaxPoints == 2
MaxFilterEntries == 2
MaxOver == 2

\* The ids a source-level index point can carry: the sources and one id of
\* a source that is not in any session.
IndexedIds == 1..(NumSources + 1)

PayloadValues ==
    {IntId(i) : i \in IndexedIds} \cup {DigitString(1), NoSourceId}

Point(score, document, row_id, match) ==
    [score |-> score, document |-> document, row_id |-> row_id, match |-> match]

FileRow == [kind |-> "file", filter_fields |-> {}]
DbRow == [kind |-> "db", filter_fields |-> {"category"}]
WideDbRow == [kind |-> "db", filter_fields |-> {"category", "price"}]
MissingRow == [kind |-> "missing", filter_fields |-> {}]

\* RetrieveContext(source_ids=...) of ChatUsecase: the ids were validated to
\* be session sources.
ConfiguredDeps(source_ids, session_source_ids, n_sources) ==
    [configured |-> TRUE, source_ids |-> source_ids,
     session_source_ids |-> session_source_ids,
     n_results |-> DEFAULT_N_RESULTS, n_sources |-> n_sources]

UnconfiguredDeps(session_source_ids) ==
    [configured |-> FALSE, source_ids |-> {},
     session_source_ids |-> session_source_ids,
     n_results |-> DEFAULT_N_RESULTS, n_sources |-> 1]

PlainCall == [filters |-> NoFilters, n_results |-> Omitted]

\* Scope: any session, any retrieve scope within it, any source-level
\* ranking; every indexed id has a file source with one passage of its own.
ScopeDeps ==
    {ConfiguredDeps(c, s, n) : c \in SUBSET SourceIds, s \in SUBSET SourceIds,
                               n \in 1..MaxNSources}
    \cup {UnconfiguredDeps(s) : s \in SUBSET SourceIds}

ScopeStore(ix) ==
    [index |-> ix,
     rows |-> [s \in IndexedIds |-> FileRow],
     colls |-> [s \in IndexedIds |-> <<Point(1, s, None, TRUE)>>],
     distance |-> "COSINE"]

InitScope ==
    /\ RInit(ScopeDeps, {PlainCall})
    /\ deps.source_ids \subseteq deps.session_source_ids
    /\ \E ix \in SeqsUpTo(PayloadValues, MaxHits) : store = ScopeStore(ix)

\* Filters: any filter map of up to MaxFilterEntries fields, over sources
\* that are missing, file-backed or DB-backed with filter field "category".
FilterFields == {"category", "price"}

FilterSpecs ==
    {ScalarSpec, EqSpec, InSpec("list"), InSpec("empty_list"), InSpec("not_list"),
     RangeSpec("bounds"), RangeSpec("no_bounds"), RangeSpec("not_dict"), LikeSpec,
     EqInSpec}

FilterEntries == [field : FilterFields, spec : FilterSpecs]

\* A dict has each key once.
FilterInputs ==
    {NoFilters} \cup
    {Filters(e) : e \in {q \in SeqsUpTo(FilterEntries, MaxFilterEntries) :
                           \A i, j \in 1..Len(q) : q[i].field = q[j].field => i = j}}

\* Source-level rankings as completion writes them: one point per source.
SourceRankings ==
    {q \in SeqsUpTo({IntId(s) : s \in SourceIds}, NumSources) :
        \A i, j \in 1..Len(q) : q[i] = q[j] => i = j}

FilterStore(ix, kinds) ==
    [index |-> ix,
     rows |-> [s \in IndexedIds |-> IF s \in SourceIds THEN kinds[s] ELSE MissingRow],
     colls |-> [s \in IndexedIds |->
                  <<Point(2, 2 * s, 1, TRUE), Point(1, 2 * s + 1, 2, FALSE)>>],
     distance |-> "COSINE"]

InitFilter ==
    /\ RInit({ConfiguredDeps({}, SourceIds, MaxNSources)},
             [filters : FilterInputs, n_results : {Omitted}])
    /\ \E ix \in SourceRankings, kinds \in [SourceIds -> {FileRow, DbRow, WideDbRow, MissingRow}] :
          store = FilterStore(ix, kinds)

\* Ranking: two file sources, each answering with up to MaxPoints passages,
\* best first under the configured distance; three texts, so that passages
\* can repeat a text within and across sources and still exceed n_results.
Documents == {1, 2, 3}

IsBestFirst(q, distance) ==
    \A i \in 1..(Len(q) - 1) :
        relevance_score(q[i].score, distance) >= relevance_score(q[i + 1].score, distance)

Rankings(distance) ==
    {q \in SeqsUpTo({Point(sc, d, None, TRUE) : sc \in 1..MaxPoints, d \in Documents},
                    MaxPoints) : IsBestFirst(q, distance)}

RankStore(ix, a, b, distance) ==
    [index |-> ix,
     rows |-> [s \in IndexedIds |-> FileRow],
     colls |-> [s \in IndexedIds |-> IF s = 1 THEN a ELSE IF s = 2 THEN b ELSE <<>>],
     distance |-> distance]

InitRank ==
    /\ RInit({ConfiguredDeps({}, SourceIds, MaxNSources)},
             [filters : {NoFilters},
              n_results : {Given(1), Given(MaxPoints)}])
    /\ \E d \in {"COSINE", "EUCLID"} :
          \E a \in Rankings(d), b \in Rankings(d) :
             store = RankStore(<<IntId(1), IntId(2)>>, a, b, d)

\* Limit: every requested n_results from below MIN_RESULTS to above
\* MAX_RESULTS, and none, over two sources that answer with as many passages
\* as they are asked for.
RequestedResults ==
    {Omitted} \cup
    {Given(n) : n \in (MIN_RESULTS - MaxOver)..(MAX_RESULTS + MaxOver)}

LimitStore ==
    [index |-> <<IntId(1), IntId(2)>>,
     rows |-> [s \in IndexedIds |-> IF s = 1 THEN FileRow ELSE DbRow],
     colls |-> [s \in IndexedIds |->
                  [i \in 1..(MAX_RESULTS + MaxOver) |->
                     Point(MAX_RESULTS + MaxOver + 1 - i,
                           s * (MAX_RESULTS + MaxOver + 1) + i,
                           IF s = 1 THEN None ELSE i, TRUE)]],
     distance |-> "COSINE"]

InitLimit ==
    /\ RInit({ConfiguredDeps({}, SourceIds, MaxNSources)},
             [filters : {NoFilters}, n_results : RequestedResults])
    /\ store = LimitStore

\* Format: a file source and a DB source answer with points as indexing
\* writes them.  The payload of a file chunk holds chunk_id (numbered from 0)
\* and no row_id, the payload of a DB row holds row_id and no chunk_id, the
\* payload of a point written by another tool holds neither.
MaxChunkId == 1

FilePoint(score, document, chunk_id) ==
    Point(score, document, None, TRUE) @@ [chunk_id |-> Given(chunk_id)]

DbPoint(score, document, row_id) ==
    Point(score, document, row_id, TRUE) @@ [chunk_id |-> Omitted]

BarePoint(score, document) ==
    Point(score, document, None, TRUE) @@ [chunk_id |-> Omitted]

\* The answers of one collection: best first, every text and every
\* identifier once (a point id names one chunk or one row).
Answers(points) ==
    {q \in SeqsUpTo(points, MaxPoints) :
        /\ IsBestFirst(q, "COSINE")
        /\ \A i, j \in 1..Len(q) :
              i # j => /\ q[i].document # q[j].document
                       /\ (q[i].chunk_id.given => q[i].chunk_id # q[j].chunk_id)
                       /\ (q[i].row_id # None => q[i].row_id # q[j].row_id)}

FileAnswers ==
    Answers({FilePoint(sc, d, c) : sc \in 1..MaxPoints, d \in {1, 2},
                                    c \in 0..MaxChunkId}
            \cup {BarePoint(sc, d) : sc \in 1..MaxPoints, d \in {1, 2}})

DbAnswers ==
    Answers({DbPoint(sc, d, r) : sc \in 1..MaxPoints, d \in {3, 4},
                                  r \in 1..MaxPoints})

InitFormat ==
    /\ RInit({ConfiguredDeps({}, SourceIds, MaxNSources)},
             [filters : {NoFilters}, n_results : {Given(MaxHits)}])
    /\ \E a \in FileAnswers, b \in DbAnswers :
          store = [index |-> <<IntId(1), IntId(2)>>,
                   rows |-> [s \in IndexedIds |-> IF s = 1 THEN FileRow ELSE DbRow],
                   colls |-> [s \in IndexedIds |->
                                IF s = 1 THEN a ELSE IF s = 2 THEN b ELSE <<>>],
                   distance |-> "COSINE"]

\* DB indexing: any source, any mapping that create_source accepted for the
\* table, the collection created and empty, one row with every cell set.
MaxFilterFields == 2

FieldNames == Columns \cup {"ghost"}

InitIndex ==
    /\ \E source_id \in SourceIds, id_field \in FieldNames,
          search_field \in FieldNames,
          filter_fields \in SeqsUpTo(FieldNames, MaxFilterFields) :
          /\ _validate_field_mapping(Columns, id_field, search_field, filter_fields)
          /\ source_db = [pc |-> "ready", source_id |-> source_id,
                          mapping |-> [id_field |-> id_field,
                                       search_field |-> search_field,
                                       filter_fields |-> filter_fields],
                          row |-> [c \in Columns |-> 1], edits |-> 0,
                          indexed |-> FALSE]
    /\ db_collection = ensure_collection(NoCollection)
    /\ latest = [k \in 1..MaxCell |-> NoUpsert]
    /\ CIdle /\ FIdle /\ SIdle
    /\ PIdle /\ RIdle

\* The rows a stream delivers: the id is NULL or a number, the search field
\* NULL, a string of spaces, the integer 0 or a text.
StreamRows ==
    {[c \in Columns |->
         IF c = "id" THEN id ELSE IF c = "body" THEN body ELSE None] :
         id \in Cells, body \in Cells \cup {Blank, Zero}}

\* DB indexing of a stream: up to MaxBatches batches of one to MaxBatchLen
\* rows (a stream yields no empty batch).
InitBatch ==
    /\ \E source_id \in SourceIds,
          stream \in SeqsUpTo(SeqsUpTo(StreamRows, MaxBatchLen) \ {<<>>}, MaxBatches) :
          LET mapping == [id_field |-> "id", search_field |-> "body",
                          filter_fields |-> <<>>]
          IN source_db = [pc |-> "streaming", source_id |-> source_id,
                          mapping |-> mapping, stream |-> stream, cursor |-> 0,
                          upserts |-> <<>>,
                          summary_chunks |-> <<_build_db_summary_header(mapping)>>]
    /\ db_collection = ensure_collection(NoCollection)
    /\ latest = [k \in 1..MaxCell |-> NoUpsert]
    /\ CIdle /\ FIdle /\ SIdle
    /\ PIdle /\ RIdle

\* Connectors: either engine, either call, a table of up to MaxRows rows,
\* a batch size of up to MaxBatchSize.
InitConn ==
    /\ \/ \E engine \in {"postgres", "clickhouse"} :
             conn = ConnectorCall("connect", engine, "introspect", 0, 1)
       \/ \E engine \in {"postgres", "clickhouse"}, n_rows \in 0..MaxRows,
             batch_size \in 1..MaxBatchSize, schema_name \in Names,
             table_name \in Names, columns \in SeqsUpTo(Names, MaxColumns) :
             /\ Len(columns) >= 1
             /\ conn = [ConnectorCall("start", engine, "stream_rows", n_rows,
                                      batch_size)
                        EXCEPT !.schema_name = schema_name,
                               !.table_name = table_name, !.columns = columns]
    /\ IIdle /\ FIdle /\ SIdle
    /\ PIdle /\ RIdle

\* Scoring: every setting of the metric, every pair of raw scores.
InitScore ==
    /\ \E setting \in DistanceSettings, a \in (0 - MaxScore)..MaxScore,
          b \in (0 - MaxScore)..MaxScore :
          scoring = [pc |-> "start", setting |-> setting, a |-> a, b |-> b,
                     ra |-> 0, rb |-> 0]
    /\ ident = [pc |-> "idle", value |-> <<>>, field_name |-> "identifier",
                outcome |-> [kind |-> "none", value |-> <<>>, error |-> NoError]]
    /\ IIdle /\ CIdle /\ SIdle
    /\ PIdle /\ RIdle

\* Identifiers: every string of up to MaxIdentLen characters.
InitIdent ==
    /\ \E value \in SeqsUpTo(Chars, MaxIdentLen),
          field_name \in {"column", "schema", "table", "identifier"} :
          ident = [pc |-> "start", value |-> value, field_name |-> field_name,
                   outcome |-> [kind |-> "none", value |-> <<>>, error |-> NoError]]
    /\ scoring = [pc |-> "idle", setting |-> "COSINE", a |-> 0, b |-> 0,
                  ra |-> 0, rb |-> 0]
    /\ IIdle /\ CIdle /\ SIdle
    /\ PIdle /\ RIdle

\* Sessions: no session yet; each source is absent or present in any status.
InitSession ==
    /\ sources \in [SourceIds -> [exists : BOOLEAN, status : SourceStatus,
                                  summary : {"none"}, backing : {TRUE},
                                  readable : {TRUE}]]
    /\ runs = [r \in RunIds |-> IdleRun]
    /\ collections = [s \in SourceIds |-> NoCollection]
    /\ sourcesIndex = NoCollection
    /\ sessionLinks = {}
    /\ deleter = [src |-> 0, pc |-> "idle"]
    /\ faults = 0
    /\ SIdle
    /\ IIdle /\ CIdle /\ FIdle
    /\ RIdle

(***************************************************************************)
(* Specifications.                                                         *)
(***************************************************************************)
Init == PInit /\ RIdle /\ XIdle

Next == PNext

Spec == Init /\ [][Next]_vars

SpecScope == InitScope /\ [][RNext]_vars

SpecFilter == InitFilter /\ [][RNext]_vars

SpecRank == InitRank /\ [][RNext]_vars

SpecLimit == InitLimit /\ [][RNext]_vars

SpecFormat == InitFormat /\ [][RNext]_vars

SpecIndex == InitIndex /\ [][INext]_vars

SpecBatch == InitBatch /\ [][BNext]_vars

SpecConn == InitConn /\ [][CNext]_vars

SpecScore == InitScore /\ [][ScoreBoth]_vars

SpecIdent == InitIdent /\ [][ValidateIdentifier]_vars

SpecSession == InitSession /\ [][SNext]_vars

(***************************************************************************)
(* Properties of the ingestion pipeline (Spec).                            *)
(***************************************************************************)
TerminalStatus == {"COMPLETED", "FAILED"}

\* C1: once a source's status is COMPLETED or FAILED, no later step of the
\* pipeline changes it, retries of the flow included.
C1_TerminalStatusIsFinal ==
    [][\A s \in SourceIds :
          sources[s].status \in TerminalStatus
              => sources'[s].status = sources[s].status]_vars

\* C2: when a flow run ends failed (its last attempt raised after the status
\* was set to PROCESSED) and the source still exists, the source's status
\* is FAILED.
C2_FailedRunLeavesFailed ==
    [][\A r \in RunIds :
          (runs[r].pc = "raised" /\ runs'[r].pc = "failed"
               /\ sources[runs[r].src].exists)
              => sources'[runs[r].src].status = "FAILED"]_vars

\* C3: in every reachable state each COMPLETED source has exactly one point
\* in the source-level index, keyed by the source and carrying its id.
C3_CompletedHasSummaryPoint ==
    \A s \in SourceIds :
        (sources[s].exists /\ sources[s].status = "COMPLETED")
            => Cardinality({p \in sourcesIndex.points : p.id = s}) = 1
               /\ \A p \in sourcesIndex.points : p.id = s => p.source_id = s

\* The runs of source s that hold the concurrency slot.
Executing(s) == {r \in RunIds : runs[r].src = s /\ runs[r].pc \in RunningPcs}

\* C4: for every source id at most one ingestion run is executing at any
\* time.
C4_OneRunPerSource ==
    \A s \in SourceIds : Cardinality(Executing(s)) <= 1

\* C4 witness: a second run of a source waits while the first is indexing.
C4_SecondRunWaits ==
    \E r1, r2 \in RunIds :
        /\ r1 # r2
        /\ runs[r1].src = runs[r2].src
        /\ runs[r1].pc = "index"
        /\ runs[r2].pc = "scheduled"

\* The positions of a run past load_source_for_processing.
LoadedPcs == {"ensure", "index", "summarize", "complete", "index_summary",
              "create_index", "upsert_summary", "succeeded"}

\* C14: a run of a source without SourceFile / SourceDb row never gets past
\* loading; when its index task has raised for the missing row, the source
\* (if it still exists) is FAILED; the source's collection is never created
\* and holds no point.
C14_MissingBackingFailsSource ==
    \A r \in RunIds :
        LET s == runs[r].src IN
        (s # 0 /\ ~sources[s].backing) =>
            /\ runs[r].pc \notin LoadedPcs
            /\ (runs[r].pc = "raised" /\ runs[r].err = "missing_backing"
                    /\ sources[s].exists)
                   => sources[s].status = "FAILED"
            /\ collections[s] = NoCollection

\* C14 witness: the index task of a file source and that of a DB source
\* have both raised for the missing row, both sources are FAILED and
\* neither has a collection.
C14_BothKindsRaised ==
    \E r1, r2 \in RunIds :
        /\ SourceKind(runs[r1].src) = "file"
        /\ SourceKind(runs[r2].src) = "db"
        /\ \A r \in {r1, r2} :
              /\ runs[r].pc = "raised"
              /\ runs[r].err = "missing_backing"
              /\ ~sources[runs[r].src].backing
              /\ sources[runs[r].src].status = "FAILED"
              /\ ~collections[runs[r].src].exists

\* C21: a delete_source request that finds its source attached to a session
\* ends with SourceConflictError and changes neither the sources table, nor
\* any per-source collection, nor the source-level index; and in every
\* state each session link names a source whose row exists.
C21_AttachedSourceNotDeleted ==
    /\ [](\A s \in sessionLinks : sources[s].exists)
    /\ [][(deleter.pc \in DeleterDone /\ deleter' # deleter
              /\ deleter'.src \in sessionLinks)
             => /\ deleter'.pc = "conflict"
                /\ UNCHANGED <<sources, collections, sourcesIndex>>]_vars

\* C21 witness: the delete of an attached COMPLETED source was refused; its
\* row, its collection and its point in the source-level index are there.
C21_ConflictKeepsEverything ==
    /\ deleter.pc = "conflict"
    /\ deleter.src \in sessionLinks
    /\ sources[deleter.src].exists
    /\ sources[deleter.src].status = "COMPLETED"
    /\ collections[deleter.src].points # {}
    /\ SummaryPoint(deleter.src) \in sourcesIndex.points

\* The positions of a run before its first write of the status.
UnmarkedPcs == {"idle", "scheduled", "mark"}

\* C23: a run that is past the first step of load_source_for_processing --
\* about to read the SourceFile / SourceDb row, at any vector store call,
\* at any later task, raised or ended -- has left its source, while the row
\* exists, with a status other than CREATED; and a step of a run that
\* changes a collection is taken with the status already written.
C23_ProcessedBeforeContent ==
    /\ [](\A r \in RunIds :
            (runs[r].pc \notin UnmarkedPcs /\ sources[runs[r].src].exists)
                => sources[runs[r].src].status # "CREATED")
    /\ [][\A s \in SourceIds :
            (collections'[s] # collections[s] /\ sources[s].exists
                 /\ deleter' = deleter)
                => sources[s].status # "CREATED"]_vars

\* C23 witness: the first attempt of a run raised inside the index task on
\* a vector store call or on reading the content, and the source is
\* PROCESSED.
C23_CrashAfterMarkLeavesProcessed ==
    \E r \in RunIds :
        /\ runs[r].pc = "raised"
        /\ runs[r].attempt = 0
        /\ runs[r].task = "index"
        /\ runs[r].err \in {"vector_store_error", "extract_error", "connector_error"}
        /\ sources[runs[r].src].exists
        /\ sources[runs[r].src].status = "PROCESSED"

\* C26: the status of a source becomes COMPLETED only by the completion
\* step of a run that is past its index and summarize tasks, in the write
\* that stores the summary; every COMPLETED source has a summary; and a run
\* in which no active provider or no model was found never gets to the
\* write of COMPLETED.
C26_CompletedOnlyAfterSummary ==
    /\ [](\A s \in SourceIds :
            (sources[s].exists /\ sources[s].status = "COMPLETED")
                => sources[s].summary # "none")
    /\ [][\A s \in SourceIds :
            (sources'[s].status = "COMPLETED" /\ sources[s].status # "COMPLETED")
                => /\ sources'[s].summary # "none"
                   /\ \E r \in RunIds : /\ runs[r].src = s
                                        /\ runs[r].pc = "complete"
                                        /\ runs'[r].pc = "index_summary"]_vars
    /\ [](\A r \in RunIds :
            runs[r].llm_missing =>
                runs[r].pc \notin {"index_summary", "create_index", "upsert_summary",
                                   "succeeded"})

\* C29: when the runs of two sources call ensure_collection for the shared
\* source-level index collection at the same time, neither call raises:
\* no run ends its completion task on the store's refusal to create a
\* collection that exists.
C29_ConcurrentEnsureSucceeds ==
    \A r \in RunIds :
        ~(runs[r].pc = "raised" /\ runs[r].err = "collection_exists")

\* C30: once delete_source has returned for a source (its row is deleted),
\* in every later state the source has no collection in the vector store
\* and no point in the source-level index, whatever the ingestion runs of
\* that source do.
C30_DeletedSourceLeavesNoVectors ==
    \A s \in SourceIds :
        ~sources[s].exists =>
            /\ ~collections[s].exists
            /\ \A p \in sourcesIndex.points : p.id # s

(***************************************************************************)
(* Properties of the retrieve tool.                                        *)
(***************************************************************************)
\* The ids the call may read: the retrieve scope, or the session's sources
\* when no scope is given.
AllowedScope ==
    IF deps.source_ids # {} THEN deps.source_ids ELSE deps.session_source_ids

PerSourceSearches ==
    {k \in 1..Len(io) : io[k].op = "search" /\ io[k].collection # SOURCES_INDEX}

\* C5 (SpecScope): every returned passage is labelled with an allowed source
\* id and was read from the collection of that source; no other source's
\* collection is searched.
C5_PassagesWithinScope ==
    /\ \A i \in 1..Len(result.passages) :
          LET passage == result.passages[i] IN
          /\ passage.source_id \in AllowedScope
          /\ \E k \in PerSourceSearches : io[k].collection = passage.source_id
          /\ \E p \in Range(store.colls[passage.source_id]) :
                 p.document = passage.document
    /\ \A k \in PerSourceSearches : io[k].collection \in AllowedScope

\* C5 witness: passages were returned although the best source-level hit
\* names a source outside the scope.
C5_OutOfScopeHitSkipped ==
    /\ rpc = "done"
    /\ result.kind = "passages"
    /\ Len(store.index) > 0
    /\ _parse_source_id(store.index[1]) \notin (AllowedScope \cup {None})

\* C6 (SpecScope): with an empty allowed set the call returns exactly
\* "No sources attached to this session" and performs no search and no
\* table read.
C6_EmptyScopeAnswer ==
    (deps.configured /\ AllowedScope = {})
        => /\ io = <<>>
           /\ rpc \in {"start", "done"}
           /\ rpc = "done" => result = Message("No sources attached to this session")

\* C6 witness: the call ended on an empty allowed set while the
\* source-level index had hits to offer.
C6_EmptyScopeWithIndexedSources ==
    /\ rpc = "done"
    /\ deps.configured
    /\ AllowedScope = {}
    /\ Len(store.index) > 0

\* The stage-1 results: the best max(4 * n_sources, n_sources) hits.
StageOneResults ==
    SubSeq(store.index, 1,
           Min(Len(store.index), Max(4 * deps.n_sources, deps.n_sources)))

\* The results that open a new allowed source: the parsed id is allowed and
\* no better result carries it.
Candidates ==
    {i \in 1..Len(StageOneResults) :
        /\ _parse_source_id(StageOneResults[i]) \in AllowedScope
        /\ \A j \in 1..(i - 1) :
              _parse_source_id(StageOneResults[j]) # _parse_source_id(StageOneResults[i])}

\* The m-th candidate in score order.
NthCandidate(m) ==
    CHOOSE i \in Candidates : Cardinality({j \in Candidates : j < i}) = m - 1

StageOneDone == deps.configured /\ AllowedScope # {} /\ Len(io) > 0

\* C7 (SpecScope): stage 1 selects the first n_sources distinct allowed ids
\* in score order, never more than n_sources; when there is none the call
\* returns "No data results found" after the one source-level search.
C7_SelectionIsFirstAllowed ==
    StageOneDone =>
        IF Candidates = {}
        THEN /\ rpc = "done"
             /\ result = Message("No data results found")
             /\ Len(io) = 1
        ELSE /\ Len(selected_source_ids) = Min(deps.n_sources, Cardinality(Candidates))
             /\ \A m \in 1..Len(selected_source_ids) :
                   selected_source_ids[m] =
                       _parse_source_id(StageOneResults[NthCandidate(m)])

\* C7 witness: the results name an out-of-scope source, then sources 1 and
\* 2; the scope is {1, 2} and n_sources is 2; the selection is <<1, 2>>.
C7_OutOfScopeThenTwoAllowed ==
    /\ StageOneDone
    /\ AllowedScope = {1, 2}
    /\ deps.n_sources = 2
    /\ StageOneResults = <<IntId(NumSources + 1), IntId(1), IntId(2)>>
    /\ selected_source_ids = <<1, 2>>

\* Chunk i is ranked before chunk j: a higher relevance score, or the same
\* score and collected earlier.
RankedBefore(i, j) ==
    \/ ranked_chunks[i].score > ranked_chunks[j].score
    \/ ranked_chunks[i].score = ranked_chunks[j].score /\ i < j

\* The chunks whose text no chunk ranked before them carries.
FirstOfText ==
    {i \in 1..Len(ranked_chunks) :
        \A j \in 1..Len(ranked_chunks) :
            RankedBefore(j, i) => ranked_chunks[j].document # ranked_chunks[i].document}

PlaceOf(i) == Cardinality({j \in FirstOfText : RankedBefore(j, i)}) + 1

\* C8 (SpecRank): the passages are the collected chunks sorted by relevance
\* score descending, ties in first-seen order, each text once, truncated to
\* n_results.
C8_RankedDeduplicatedTruncated ==
    (rpc = "done" /\ result.kind = "passages") =>
        /\ Len(result.passages) = Min(effective_n_results, Cardinality(FirstOfText))
        /\ \A i \in FirstOfText :
              PlaceOf(i) <= effective_n_results
                  => result.passages[PlaceOf(i)] = Passage(ranked_chunks[i])

\* C8 witness: two sources tie on a score with different texts, a text was
\* collected twice, and more texts were found than n_results allows.
C8_TieDuplicateAndTruncation ==
    /\ rpc = "done"
    /\ result.kind = "passages"
    /\ \E i, j \in 1..Len(ranked_chunks) :
          /\ i < j
          /\ ranked_chunks[i].score = ranked_chunks[j].score
          /\ ranked_chunks[i].source_id # ranked_chunks[j].source_id
          /\ ranked_chunks[i].document # ranked_chunks[j].document
    /\ Cardinality(FirstOfText) < Len(ranked_chunks)
    /\ Cardinality(FirstOfText) > effective_n_results

\* A filter map with an entry that no allow-list accepts: an empty or
\* non-list "in", a "range" without bound, an unsupported operator.
Malformed(filters) ==
    /\ filters.given
    /\ \E i \in 1..Len(filters.entries) :
          ~_build_filter_condition(filters.entries[i].field, filters.entries[i].spec,
                                   FilterFields).ok

\* C9 (SpecFilter): a call whose filter map is rejected never returns
\* passages; it returns "Invalid retrieve filters".
C9_MalformedFilterRejected ==
    (rpc = "done" /\ Malformed(call.filters) /\ Len(selected_source_ids) > 0)
        => result.kind = "Invalid retrieve filters"

HasForeignField(filters, allowed_fields) ==
    /\ filters.given
    /\ \E i \in 1..Len(filters.entries) : filters.entries[i].field \notin allowed_fields

\* The reads of the SourceDb row of a DB source.
DbReads ==
    {k \in 1..Len(io) : io[k].op = "source_dbs"
                        /\ store.rows[io[k].collection].kind = "db"}

SearchesOf(source_id) == {k \in PerSourceSearches : io[k].collection = source_id}

\* C15 (SpecFilter): when the filter map names a field outside the
\* filter_fields of a DB source that the call reaches, the build fails, the
\* call ends with "Invalid retrieve filters" and that source's collection is
\* not searched; every condition passed to a search is on a field of the
\* searched source's filter_fields.
C15_ForeignFieldFailsBuild ==
    /\ \A k \in DbReads :
          LET allowed == store.rows[io[k].collection].filter_fields IN
          HasForeignField(call.filters, allowed) =>
              /\ ~_build_query_filter(call.filters, allowed).ok
              /\ rpc = "done"
              /\ result.kind = "Invalid retrieve filters"
              /\ SearchesOf(io[k].collection) = {}
    /\ \A k \in PerSourceSearches :
          \A i \in 1..Len(io[k].must) :
              io[k].must[i].key \in store.rows[io[k].collection].filter_fields

\* C15 witness: the map has a valid entry on the allowed field "category"
\* followed by an entry on "price", the first selected source allows only
\* "category", and the call ended with the rejection of "price".
C15_ForeignFieldAfterValidEntry ==
    /\ rpc = "done"
    /\ call.filters = Filters(<<[field |-> "category", spec |-> EqSpec],
                                [field |-> "price", spec |-> ScalarSpec]>>)
    /\ Len(selected_source_ids) > 0
    /\ store.rows[selected_source_ids[1]] = DbRow
    /\ result = InvalidFilters([key |-> "price", err |-> "is not allowed"])

\* The operator family of a raw spec: a bare scalar or {eq: v}, {in: a
\* non-empty list}, {range: a dict with a bound}; any other shape has none.
Family(raw_spec) ==
    IF ~raw_spec.is_dict THEN "eq"
    ELSE IF raw_spec.keys = {"eq"} THEN "eq"
    ELSE IF raw_spec.keys = {"in"} /\ raw_spec.in_value = "list" THEN "in"
    ELSE IF raw_spec.keys = {"range"} /\ raw_spec.range_value = "bounds" THEN "range"
    ELSE "none"

ConditionOf(family) ==
    CASE family = "eq" -> "match_value"
      [] family = "in" -> "match_any"
      [] OTHER -> "range"

\* C16 (SpecFilter): for a non-empty filter map whose fields a reached DB
\* source all allows: when every entry has an operator family, the search
\* of that source gets one condition per entry, in the entry's family and
\* on the entry's field, all under "must"; otherwise the build fails, the
\* call ends with "Invalid retrieve filters" and the source is not searched.
C16_OneConditionPerEntry ==
    \A k \in DbReads :
        LET source_id == io[k].collection
            allowed == store.rows[source_id].filter_fields
            entries == call.filters.entries
            built == _build_query_filter(call.filters, allowed)
        IN (call.filters.given /\ Len(entries) > 0
                /\ ~HasForeignField(call.filters, allowed)) =>
            IF \A i \in 1..Len(entries) : Family(entries[i].spec) # "none"
            THEN /\ built.ok
                 /\ Len(built.filter.must) = Len(entries)
                 /\ \A i \in 1..Len(entries) :
                       /\ built.filter.must[i].key = entries[i].field
                       /\ built.filter.must[i].op =
                              ConditionOf(Family(entries[i].spec))
                 /\ SearchesOf(source_id) # {}
                 /\ \A j \in SearchesOf(source_id) : io[j].must = built.filter.must
            ELSE /\ ~built.ok
                 /\ rpc = "done"
                 /\ result.kind = "Invalid retrieve filters"
                 /\ SearchesOf(source_id) = {}

\* The identifier a point carries: its row_id, else its chunk_id, else none.
PointIdentifier(point) ==
    IF point.row_id # None THEN Given(point.row_id) ELSE point.chunk_id

\* The identifier a rendered passage shows after "row:", none for the
\* rendering "[source:<id>] <text>".
PassageIdentifier(passage) ==
    IF passage.row_id = None THEN Omitted ELSE Given(passage.row_id)

\* The points of the store a passage renders (texts are unique in the store).
PointsOf(passage) ==
    {point \in Range(store.colls[passage.source_id]) :
        point.document = passage.document}

\* C28 (SpecFormat): every kept passage is rendered from a point of its
\* source, as "[source:<id>] <text>" when the point carries neither a row_id
\* nor a chunk_id and as "[source:<id> row:<identifier>] <text>" with the
\* row_id of a DB row or the chunk_id of a file chunk otherwise; the passages
\* follow each other in rank order.
C28_PassageShowsIdentifier ==
    (rpc = "done" /\ result.kind = "passages") =>
        /\ \A i \in 1..Len(result.passages) :
              /\ PointsOf(result.passages[i]) # {}
              /\ \A point \in PointsOf(result.passages[i]) :
                    PassageIdentifier(result.passages[i]) = PointIdentifier(point)
        /\ \A i \in 1..(Len(result.passages) - 1) :
              \A p \in PointsOf(result.passages[i]),
                 q \in PointsOf(result.passages[i + 1]) : p.score >= q.score

\* The same for the passages of DB rows and of points without identifier.
C28_RowIdentifierShown ==
    (rpc = "done" /\ result.kind = "passages") =>
        /\ \A i \in 1..Len(result.passages) :
              /\ PointsOf(result.passages[i]) # {}
              /\ \A point \in PointsOf(result.passages[i]) :
                    ~point.chunk_id.given =>
                        PassageIdentifier(result.passages[i]) = PointIdentifier(point)
        /\ \A i \in 1..(Len(result.passages) - 1) :
              \A p \in PointsOf(result.passages[i]),
                 q \in PointsOf(result.passages[i + 1]) : p.score >= q.score

\* A file chunk, a DB row and a point without identifier were all rendered.
C28_EveryKindRendered ==
    /\ rpc = "done"
    /\ result.kind = "passages"
    /\ \E i, j, k \in 1..Len(result.passages) :
          /\ \E point \in PointsOf(result.passages[i]) : point.chunk_id.given
          /\ \E point \in PointsOf(result.passages[j]) : point.row_id # None
          /\ \E point \in PointsOf(result.passages[k]) :
                PointIdentifier(point) = Omitted

(***************************************************************************)
(* Properties of relevance_score (SpecScore) and validate_identifier       *)
(* (SpecIdent).                                                            *)
(***************************************************************************)
\* C17 (SpecScore): under a Euclidean or Manhattan metric a lower raw score
\* gets a higher relevance score; under cosine or dot the relevance score
\* is the raw score.
C17_HigherIsBetter ==
    scoring.pc = "scored" =>
        LET distance == _resolve_distance(scoring.setting) IN
        /\ distance \in {"EUCLID", "MANHATTAN"}
               => (scoring.a < scoring.b => scoring.ra > scoring.rb)
        /\ distance \in {"COSINE", "DOT"}
               => (scoring.ra = scoring.a /\ scoring.rb = scoring.b)

\* C17 witness: with the metric configured as "euclid" the raw scores 1 and
\* 2 got the relevance scores -1 and -2.
C17_EuclidNegated ==
    /\ scoring.pc = "scored"
    /\ scoring.setting = "euclid"
    /\ scoring.a = 1 /\ scoring.b = 2
    /\ scoring.ra = 0 - 1 /\ scoring.rb = 0 - 2

\* A non-empty string of letters, digits and underscores that does not
\* start with a digit.
WellFormed(value) ==
    /\ Len(value) >= 1
    /\ \A i \in 1..Len(value) : value[i] \in Letters \cup Digits \cup {"_"}
    /\ value[1] \notin Digits

\* C18 (SpecIdent): validate_identifier returns a well-formed string
\* unchanged and raises SourceDbConnectorError for every other string, so
\* for every string with a quote, a semicolon or a space.
C18_IdentifierGrammar ==
    ident.pc = "done" =>
        /\ IF WellFormed(ident.value)
           THEN ident.outcome = Returned(ident.value)
           ELSE /\ ident.outcome.kind = "raised"
                /\ ident.outcome.error.type = "SourceDbConnectorError"
        /\ (\E i \in 1..Len(ident.value) : ident.value[i] \in {"'", ";", " "})
               => ident.outcome.kind = "raised"

\* C18 witness: a string that starts like an identifier and goes on with a
\* quote and a semicolon was rejected.
C18_InjectionRejected ==
    /\ ident.pc = "done"
    /\ ident.value = <<"a", "'", ";">>
    /\ ident.outcome.kind = "raised"

(***************************************************************************)
(* Properties of DB indexing (SpecIndex).                                  *)
(***************************************************************************)
\* The stored points of the logical key "db:<source_id>:<row_id>".
StoredAt(row_id) ==
    {p \in db_collection.points :
        p.id = _normalize_point_id(<<"db", source_db.source_id, row_id>>)}

\* C11 (SpecIndex): after any number of upserts under a logical key, the
\* collection holds exactly one point for the key; its vector is the
\* embedding of the last upserted text, its document is that text and its
\* payload carries every entry of the last upserted payload.
C11_UpsertOverwritesByKey ==
    \A k \in 1..MaxCell :
        latest[k].given =>
            /\ Cardinality(StoredAt(k)) = 1
            /\ \A p \in StoredAt(k) :
                  /\ p.vector = _embed_texts(latest[k].text)
                  /\ p.payload.document = latest[k].text
                  /\ \A f \in DOMAIN latest[k].payload :
                        p.payload[f] = latest[k].payload[f]

\* C19 (SpecIndex): every point of the source's collection has payload
\* source_id equal to the id of the owning source.
C19_PayloadSourceIdIsOwner ==
    \A p \in db_collection.points : p.payload.source_id = source_db.source_id

\* A row with a non-null id and a search value whose text is not blank.
HasIdAndText(row) == row["id"] # None /\ row["body"] \notin {None, Blank}

\* The rows of a batch for which _prepare_db_point returns a point.
IsPoint(row) == _prepare_db_point(source_db.source_id, source_db.mapping, row).given

\* The point keys of the rows of a batch.
KeysOf(batch_rows) ==
    [k \in 1..Len(batch_rows) |-> <<"db", source_db.source_id, batch_rows[k]["id"]>>]

\* The upsert calls the batches from the i-th on are to cause: one per batch
\* that has a row with an id and a text, holding those rows in order.
RECURSIVE ExpectedUpserts(_)
ExpectedUpserts(i) ==
    IF i > Len(source_db.stream) THEN <<>>
    ELSE LET rows == SelectSeq(source_db.stream[i], HasIdAndText)
         IN (IF Len(rows) > 0 THEN <<KeysOf(rows)>> ELSE <<>>)
                \o ExpectedUpserts(i + 1)

RECURSIVE SeqSum(_)
SeqSum(lens) == IF lens = <<>> THEN 0 ELSE Head(lens) + SeqSum(Tail(lens))

\* C24 (SpecBatch): when DB indexing has consumed the stream, its upsert
\* calls are, in order, one call per batch that has a row with a non-null
\* id and a non-blank search text, each call holding exactly those rows of
\* its batch in order under the keys db:<source_id>:<row_id>; a batch
\* without such a row caused no call, and the number of upserted rows is
\* the number of such rows.
C24_UpsertsExactlyValidRows ==
    source_db.pc = "returned" =>
        LET calls == [c \in 1..Len(source_db.upserts) |->
                         [k \in 1..Len(source_db.upserts[c]) |->
                             source_db.upserts[c][k].point_id]]
        IN /\ calls = ExpectedUpserts(1)
           /\ SeqSum([c \in 1..Len(calls) |-> Len(calls[c])])
                = SeqSum([i \in 1..Len(source_db.stream) |->
                             Len(SelectSeq(source_db.stream[i], HasIdAndText))])

\* The rows of the whole stream that became points, in stream order.
RECURSIVE PointRows(_)
PointRows(i) ==
    IF i > Len(source_db.stream) THEN <<>>
    ELSE SelectSeq(source_db.stream[i], IsPoint) \o PointRows(i + 1)

\* C25 (SpecBatch): the digest returned for a DB source is the header line
\* followed by one line 'row <id>: <preview>' for each of the first
\* min(V, sample count) rows that became points, in stream order, each
\* preview being the first characters of the row's text up to the preview
\* length.
C25_DigestIsHeaderAndSample ==
    source_db.pc = "returned" =>
        LET rows == PointRows(1)
            n == Min(Len(rows), DB_SUMMARY_SAMPLE_LIMIT)
            digest == source_db.summary_chunks
        IN /\ digest[1] = _build_db_summary_header(source_db.mapping)
           /\ Len(digest) = 1 + n
           /\ \A k \in 1..n :
                 /\ digest[k + 1].row_id = rows[k]["id"]
                 /\ digest[k + 1].preview <= DB_SUMMARY_TEXT_PREVIEW_LENGTH
                 /\ digest[k + 1].preview
                        = Min(rows[k]["body"], DB_SUMMARY_TEXT_PREVIEW_LENGTH)

(***************************************************************************)
(* Properties of the relational connectors (SpecConn).                     *)
(***************************************************************************)
StreamEnded == conn.op = "stream_rows" /\ conn.pc = "done" /\ conn.returned

\* The number of times row was yielded.
Yielded(row) ==
    Cardinality({<<b, i>> \in (1..Len(conn.batches)) \X (1..conn.batch_size) :
                    i <= Len(conn.batches[b]) /\ conn.batches[b][i] = row})

\* C12 (SpecConn): when a stream over an unchanged table of n_rows rows has
\* ended, its queries used offset 0 and then the offset advanced by the
\* length of each batch, every batch was non-empty and at most batch_size
\* long, the stream stopped at the first empty result, and every row was
\* yielded exactly once.
C12_StreamYieldsEveryRowOnce ==
    StreamEnded =>
        /\ Len(conn.queries) = Len(conn.batches) + 1
        /\ conn.queries[1] = 0
        /\ \A b \in 1..Len(conn.batches) :
              /\ Len(conn.batches[b]) \in 1..conn.batch_size
              /\ conn.queries[b + 1] = conn.queries[b] + Len(conn.batches[b])
        /\ \A row \in 1..conn.n_rows : Yielded(row) = 1

\* C13 (SpecConn): a connector call that failed, at the connection or at a
\* query, raised SourceDbConnectorError with the message of the failure.
C13_FailuresAreWrapped ==
    (conn.pc = "done" /\ conn.failure # "none")
        => conn.raised = SourceDbConnectorError(conn.failure)

\* The call is over for its caller: it returned or raised, or the consumer
\* of the stream stopped iterating.
CallEnded == conn.pc \in {"done", "abandoned", "closed"}

\* C22 (SpecConn): a connector call opens exactly one connection (none when
\* it fails before or at the connect), and when the call has completed,
\* failed, or its consumer has stopped iterating, no connection is open.
C22_OneConnectionReleased ==
    CallEnded =>
        /\ conn.open = 0
        /\ conn.opened <= 1
        /\ conn.failure \notin {"identifier", "connect"} => conn.opened = 1

QuotedIdentifiers == Range(conn.query.select) \cup Range(conn.query.from)

\* C27 (SpecConn): a stream whose schema, table or one of its columns is not
\* a valid identifier raises SourceDbConnectorError with no connection
\* opened and no query sent; the query a stream connects and fetches with
\* names exactly the given columns, schema and table, each valid and in the
\* engine's quotes, and has placeholders for LIMIT and OFFSET, the batch
\* size and the offset travelling as parameters.
C27_IdentifiersValidatedFirst ==
    conn.op = "stream_rows" =>
        /\ (FirstInvalid(conn) # 0 /\ conn.pc # "start") =>
              /\ conn.pc = "done"
              /\ conn.failure = "identifier"
              /\ conn.raised.type = "SourceDbConnectorError"
              /\ conn.rejected.kind = "raised"
              /\ conn.opened = 0
              /\ conn.queries = <<>>
        /\ (conn.opened > 0 \/ conn.queries # <<>> \/ conn.failure = "connect") =>
              /\ Len(conn.query.select) = Len(conn.columns)
              /\ \A i \in 1..Len(conn.columns) :
                    conn.query.select[i].identifier = conn.columns[i]
              /\ conn.query.from[1].identifier = conn.schema_name
              /\ conn.query.from[2].identifier = conn.table_name
              /\ \A q \in QuotedIdentifiers :
                    /\ fullmatch(IDENTIFIER_PATTERN, q.identifier)
                    /\ q.quote = IF conn.engine = "postgres" THEN "double_quote"
                                 ELSE "backtick"
              /\ conn.query.limit \in {"$1", "%(limit)s"}
              /\ conn.query.offset \in {"$2", "%(offset)s"}
              /\ \A k \in 1..Len(conn.queries) : conn.queries[k] \in 0..conn.n_rows

\* C27 witness: a stream with a valid first column and an invalid schema or
\* table raised on the identifier with no connection opened.
C27_InvalidTableAfterValidColumns ==
    /\ conn.op = "stream_rows"
    /\ conn.pc = "done"
    /\ conn.failure = "identifier"
    /\ FirstInvalid(conn) > Len(conn.columns)
    /\ conn.rejected.error.message[2] \in {"schema", "table"}
    /\ conn.opened = 0

(***************************************************************************)
(* Sessions.                                                               *)
(***************************************************************************)
HasDuplicate(source_ids) == Len(source_ids) # Cardinality(Range(source_ids))

NamesMissing(source_ids) == \E i \in 1..Len(source_ids) : ~sources[source_ids[i]].exists

NamesNotCompleted(source_ids) ==
    \E i \in 1..Len(source_ids) :
        /\ sources[source_ids[i]].exists
        /\ sources[source_ids[i]].status # "COMPLETED"

\* C20: create_session and update_session_sources reject a list of source
\* ids that holds a duplicate (400), names a source that does not exist
\* (404) or names a source whose status is not COMPLETED (409), and a
\* rejected request leaves every session's links and messages as they were;
\* an accepted request links exactly the listed sources, and every source a
\* request attaches exists and is COMPLETED.
C20_BadSourceIdsRejected ==
    [][LET ids == response'.source_ids
           bad == HasDuplicate(ids) \/ NamesMissing(ids) \/ NamesNotCompleted(ids)
       IN response'.op \in {"create_session", "update_session_sources"} =>
            /\ bad => /\ response'.code \in {400, 404, 409}
                      /\ sessions' = sessions
            /\ HasDuplicate(ids) => \/ response'.code = 400
                                    \/ response'.error = "SessionNotFoundError"
            /\ response'.code = 400 => HasDuplicate(ids)
            /\ response'.error = "SourceNotFoundError" => NamesMissing(ids)
            /\ response'.code = 409 => NamesNotCompleted(ids)
            /\ response'.code # 200 => sessions' = sessions
            /\ response'.code = 200 =>
                   sessions'[response'.session_id].source_ids = Range(ids)
            /\ \A id \in SessionIds :
                   \A s \in sessions'[id].source_ids \ sessions[id].source_ids :
                       sources[s].exists /\ sources[s].status = "COMPLETED"]_vars

\* An update of a session that has links and messages was rejected with 409,
\* and the session still has them.
C20_UpdateRejectedKeepsLinks ==
    /\ response.op = "update_session_sources"
    /\ response.code = 409
    /\ sessions[response.session_id].exists
    /\ sessions[response.session_id].source_ids # {}
    /\ sessions[response.session_id].messages > 0
    /\ Range(response.source_ids) # sessions[response.session_id].source_ids

====
